---- MODULE Spec2Model ----
(***************************************************************************)
(* A model of the content-generation pipeline:                             *)
(*   ContentValidatorService  (the quality scorer),                        *)
(*   TwitterStrategy / LinkedInStrategy (prompt, postProcess, optimize,    *)
(*   validate), PlatformOptimizerService (the strategy registry) and       *)
(*   ContentGeneratorService.generateContent (the orchestration).          *)
(*                                                                         *)
(* Text is a sequence of one-character strings; Chars("abc") is            *)
(* <<"a","b","c">>.  Messages and prompts are sequences of string          *)
(* segments whose concatenation is the JavaScript string.  Real-valued     *)
(* scores are fixed-point integers: "milli" is thousandths, "deci" is      *)
(* tenths (the unit Math.round(x * 10) / 10 produces).                     *)
(***************************************************************************)
EXTENDS Integers, Sequences, FiniteSets, TLC

(***************************************************************************)
(* Characters and JavaScript string primitives                             *)
(***************************************************************************)
\* a sequence given as a function, evaluated once into a tuple
Tuple(f) == f \o << >>

\* the characters of a string
Chars(s) == Tuple([i \in 1..Len(s) |-> SubSeq(s, i, i)])

UpperLetters == Chars("ABCDEFGHIJKLMNOPQRSTUVWXYZ")
LowerLetters == Chars("abcdefghijklmnopqrstuvwxyz")
UpperSet == {UpperLetters[i] : i \in 1..Len(UpperLetters)}
LowerSet == {LowerLetters[i] : i \in 1..Len(LowerLetters)}
DigitSet == {"0", "1", "2", "3", "4", "5", "6", "7", "8", "9"}

\* \s of a JavaScript regular expression, over the characters the texts use
IsWS(c) == c \in {" ", "\n", "\t"}
\* \d
IsDigit(c) == c \in DigitSet
\* [A-Za-z]
IsLetter(c) == c \in UpperSet \/ c \in LowerSet
\* \w
IsWordChar(c) == IsLetter(c) \/ IsDigit(c) \/ c = "_"
\* [.!?]
IsTerminator(c) == c \in {".", "!", "?"}
\* [.,!?]
IsPunct(c) == c \in {".", ",", "!", "?"}
\* ["']
IsQuote(c) == c \in {"\"", "'"}
\* [aeiouy]
IsVowel(c) == c \in {"a", "e", "i", "o", "u", "y"}

LowerChar(c) ==
  IF c \in UpperSet
    THEN LowerLetters[CHOOSE k \in 1..Len(UpperLetters) : UpperLetters[k] = c]
    ELSE c
UpperChar(c) ==
  IF c \in LowerSet
    THEN UpperLetters[CHOOSE k \in 1..Len(LowerLetters) : LowerLetters[k] = c]
    ELSE c

\* String.prototype.toLowerCase
toLowerCase(t) == Tuple([i \in 1..Len(t) |-> LowerChar(t[i])])

\* String.prototype.includes / a literal pattern's RegExp.test
includes(t, p) ==
  \E i \in 1..(Len(t) - Len(p) + 1) :
    /\ Len(p) = 0 \/ t[i] = p[1]
    /\ SubSeq(t, i, i + Len(p) - 1) = p

\* String.prototype.startsWith
startsWith(t, p) == Len(t) >= Len(p) /\ SubSeq(t, 1, Len(p)) = p

\* the indices 1..n as a sequence
Indices(n) == Tuple([i \in 1..n |-> i])

\* the characters of t at the indices Keep accepts, in order
Pick(t, Keep(_)) ==
  LET idx == SelectSeq(Indices(Len(t)), Keep)
  IN  Tuple([k \in 1..Len(idx) |-> t[idx[k]]])

\* the number of indices of t that Test accepts
CountIdx(t, Test(_)) == Len(SelectSeq(Indices(Len(t)), Test))

\* the class of each character of t, as a sequence of booleans
Mask(t, InClass(_)) == Tuple([i \in 1..Len(t) |-> InClass(t[i])])


\* the maximal runs of TRUE in mask, as <<first, last>> pairs in order
MaskRuns(mask) ==
  LET n      == Len(mask)
      starts == SelectSeq(Indices(n), LAMBDA i : mask[i] /\ (i = 1 \/ ~mask[i - 1]))
      ends   == SelectSeq(Indices(n), LAMBDA i : mask[i] /\ (i = n \/ ~mask[i + 1]))
  IN  Tuple([k \in 1..Len(starts) |-> <<starts[k], ends[k]>>])

\* the maximal runs of class characters of t
Runs(t, InClass(_)) == MaskRuns(Mask(t, InClass))

\* String.prototype.trim
trim(t) ==
  IF \A i \in 1..Len(t) : IsWS(t[i]) THEN << >>
  ELSE LET a == CHOOSE i \in 1..Len(t) :
                  ~IsWS(t[i]) /\ \A j \in 1..(i - 1) : IsWS(t[j])
           b == CHOOSE i \in 1..Len(t) :
                  ~IsWS(t[i]) /\ \A j \in (i + 1)..Len(t) : IsWS(t[j])
       IN  SubSeq(t, a, b)

\* t.split(/\s+/): the maximal runs of non-whitespace, with an empty string
\* before a leading and after a trailing whitespace run ("" gives [""])
splitWS(t) ==
  LET NotWS(c) == ~IsWS(c)
      r == Runs(t, NotWS)
      words == Tuple([k \in 1..Len(r) |-> SubSeq(t, r[k][1], r[k][2])])
  IN  IF Len(t) = 0 THEN << << >> >>
      ELSE (IF IsWS(t[1]) THEN << << >> >> ELSE << >>)
           \o words
           \o (IF IsWS(t[Len(t)]) THEN << << >> >> ELSE << >>)

\* the sum of s[lo..hi], by halving
RECURSIVE SumRange(_, _, _)
SumRange(s, lo, hi) ==
  IF lo > hi THEN 0
  ELSE IF lo = hi THEN s[lo]
  ELSE LET mid == (lo + hi) \div 2
       IN  SumRange(s, lo, mid) + SumRange(s, mid + 1, hi)
Sum(s) == SumRange(s, 1, Len(s))

\* the concatenation of the sequences s[lo..hi], by halving
RECURSIVE ConcatRange(_, _, _)
ConcatRange(s, lo, hi) ==
  IF lo > hi THEN << >>
  ELSE IF lo = hi THEN s[lo]
  ELSE LET mid == (lo + hi) \div 2
       IN  ConcatRange(s, lo, mid) \o ConcatRange(s, mid + 1, hi)
Concat(s) == ConcatRange(s, 1, Len(s))

\* Array.prototype.join over string segments: the items with sep between them
join(items, sep) ==
  Concat([k \in 1..Len(items) |->
            IF k = 1 THEN <<items[k]>> ELSE <<sep, items[k]>>])

\* Array.prototype.slice(0, n)
\* a slice that keeps every element
sliceWhole(s, n) == s

slice0(s, n) == SubSeq(s, 1, IF Len(s) < n THEN Len(s) ELSE n)

Min(a, b) == IF a < b THEN a ELSE b
Max(a, b) == IF a > b THEN a ELSE b

\* floor of the square root of n >= 0, by bisection on [lo, hi]
RECURSIVE SqrtIn(_, _, _)
SqrtIn(n, lo, hi) ==
  IF lo >= hi THEN lo
  ELSE LET mid == (lo + hi + 1) \div 2
       IN  IF mid * mid <= n THEN SqrtIn(n, mid, hi) ELSE SqrtIn(n, lo, mid - 1)
isqrt(n) == SqrtIn(n, 0, 46340)

\* a literal word w (lower case) occurs in t between two \b word boundaries,
\* compared case-insensitively: /\bw\b/i
matchesWord(t, w) ==
  LET lower == toLowerCase(t)
  IN  \E i \in 1..(Len(t) - Len(w) + 1) :
        /\ lower[i] = w[1]
        /\ SubSeq(lower, i, i + Len(w) - 1) = w
        /\ i = 1 \/ ~IsWordChar(t[i - 1])
        /\ i + Len(w) - 1 = Len(t) \/ ~IsWordChar(t[i + Len(w)])

\* /\d/.test and /\d+/.test
hasDigit(t) == \E i \in 1..Len(t) : IsDigit(t[i])

\* (t.match(/c/g) || []).length for a single character c
countChar(t, c) == CountIdx(t, LAMBDA i : t[i] = c)

(***************************************************************************)
(* ContentValidatorService: the quality scorer                             *)
(***************************************************************************)
AI_SLOP_PHRASES ==
  << "delve", "delve into", "unlock the power", "unlock", "game-changer",
     "game changer", "revolutionize", "in conclusion", "in summary",
     "to summarize", "it's important to note", "it is important to note",
     "tapestry", "landscape", "realm", "leverage", "synergy",
     "paradigm shift", "cutting-edge", "state-of-the-art", "best practices",
     "world-class", "robust", "seamless", "holistic", "innovative",
     "disruptive", "transformative", "at the end of the day",
     "think outside the box", "low-hanging fruit", "move the needle",
     "deep dive" >>

CORPORATE_JARGON ==
  << "circle back", "touch base", "synergize", "drill down", "bandwidth",
     "take it offline", "run it up the flagpole", "boil the ocean",
     "drinking from the fire hose" >>

\* the phrases of list that occur in content, compared in lower case
phrasesFound(list, content) ==
  LET lowerContent == toLowerCase(content)
  IN  SelectSeq(list, LAMBDA phrase : includes(lowerContent, toLowerCase(Chars(phrase))))

detectAISlop(content) == phrasesFound(AI_SLOP_PHRASES, content)

detectCorporateJargon(content) == phrasesFound(CORPORATE_JARGON, content)

\* the bullet character U+2022, which has no ASCII spelling
Bullet == "U+2022"

\* /^(\d+\.|[-U+2022])/m : a line that begins with digits and a dot, or a list marker
listFormatMatches(content) ==
  \E i \in 1..Len(content) :
    /\ i = 1 \/ content[i - 1] = "\n"
    /\ \/ content[i] \in {"-", Bullet}
       \/ \E j \in i..(Len(content) - 1) :
            /\ \A k \in i..j : IsDigit(content[k])
            /\ content[j + 1] = "."

\* /^(Stop|Start|Here's|I spent|The biggest)/i
hookMatches(content) ==
  \E h \in {"stop", "start", "here's", "i spent", "the biggest"} :
    startsWith(toLowerCase(content), Chars(h))

\* /\b(learn|discover|create|build|avoid|start|stop)\b/i
actionWordMatches(content) ==
  \E w \in {"learn", "discover", "create", "build", "avoid", "start", "stop"} :
    matchesWord(content, Chars(w))

\* the names of ENGAGEMENT_ELEMENTS whose pattern matches, in declaration order
detectEngagementElements(content) ==
  SelectSeq(<<"question", "numbers", "listFormat", "hook", "actionWord">>,
    LAMBDA element :
      CASE element = "question"   -> includes(content, <<"?">>)
        [] element = "numbers"    -> hasDigit(content)
        [] element = "listFormat" -> listFormatMatches(content)
        [] element = "hook"       -> hookMatches(content)
        [] element = "actionWord" -> actionWordMatches(content))

\* content.split(/[.!?]+/).filter(s => s.trim().length > 0), as index pairs
sentenceRuns(content) ==
  LET NotTerminator(c) == ~IsTerminator(c)
  IN  SelectSeq(Runs(content, NotTerminator),
        LAMBDA r : \E i \in r[1]..r[2] : ~IsWS(content[i]))

\* a count of the characters of t[a..b] instead of its words
wordsInChars(t, a, b) == b - a + 1

\* the number of words of t[a..b], s.trim().split(/\s+/).length: the number
\* of maximal runs of non-whitespace
wordsIn(t, a, b) ==
  Cardinality({i \in a..b : ~IsWS(t[i]) /\ (i = a \/ IsWS(t[i - 1]))})

\* the syllables of one word of countSyllables' loop
wordSyllables(word) ==
  LET vowels == Cardinality({i \in 1..Len(word) :
                  IsVowel(word[i]) /\ (i = 1 \/ ~IsVowel(word[i - 1]))})
      syllables == IF Len(word) > 0 /\ word[Len(word)] = "e"
                     THEN vowels - 1 ELSE vowels
  IN  Max(1, syllables)

countSyllables(text) ==
  LET words == splitWS(toLowerCase(text))
  IN  Sum([k \in 1..Len(words) |-> wordSyllables(words[k])])

\* Flesch Reading Ease in thousandths, clamped to [0, 100]
calculateReadability(content) ==
  LET sentences == Len(sentenceRuns(content))
      words     == wordsIn(content, 1, Len(content))
      syllables == countSyllables(content)
  IN  IF sentences = 0 \/ words = 0 THEN 0
      ELSE LET score == 206835 - ((1015 * words) \div sentences)
                               - ((84600 * syllables) \div words)
           IN  Max(0, Min(100000, score))

\* floor(1000000 * num / den) for 0 <= num, 0 < den, 1000 * den < 2^31
millionTimes(num, den) ==
  LET q  == num \div den
      r  == num % den
      q1 == (1000 * r) \div den
      r1 == (1000 * r) % den
      q2 == (1000 * r1) \div den
  IN  1000000 * q + 1000 * q1 + q2

\* the coefficient of variation of the sentences' word counts, in thousandths:
\* stdDev / mean = sqrt(n * sum(l^2) - sum(l)^2) / sum(l)
\* no variety for a text of fewer than two sentences
varietyOfFewNone(n) == 0

\* the variety (in thousandths) returned for a text of n < 2 sentences
varietyOfFew(n) == 1000

calculateSentenceVariety(content) ==
  LET sentences == sentenceRuns(content)
      n         == Len(sentences)
      lengths   == Tuple([k \in 1..n |->
                     wordsIn(content, sentences[k][1], sentences[k][2])])
      total     == Sum(lengths)
      squares   == Sum([k \in 1..n |-> lengths[k] * lengths[k]])
  IN  IF n < 2 THEN varietyOfFew(n)
      ELSE IF total > 0
        THEN isqrt(millionTimes(n * squares - total * total, total * total))
        ELSE 0

GENERIC_PHRASES ==
  << "many people", "it is well known", "everyone knows", "as we all know",
     "generally speaking", "in today's world", "in this day and age" >>

isGeneric(content) ==
  LET lowerContent == toLowerCase(content)
      genericCount == Len(SelectSeq(GENERIC_PHRASES,
                        LAMBDA phrase : includes(lowerContent, Chars(phrase))))
      hasNumbers   == hasDigit(content)
      hasSpecifics == \E w \in {"because", "example", "specifically", "for instance"} :
                        matchesWord(content, Chars(w))
  IN  genericCount > 0 \/ (~hasNumbers /\ ~hasSpecifics /\ Len(content) > 100)

\* Math.round(x * 10) / 10 of a value in thousandths, in tenths
round1(milli) == (milli + 50) \div 100

\* the authenticity without its clamp to [0, 10]
authenticityUnclamped(slopCount, jargonCount) ==
  (10 - slopCount * 2 - jargonCount) * 1000

\* a slop phrase weighing no more than a jargon phrase
authenticityEvenWeights(slopCount, jargonCount) ==
  Max(0, Min(10, 10 - slopCount - jargonCount)) * 1000

authenticityOf(slopCount, jargonCount) ==
  Max(0, Min(10, 10 - slopCount * 2 - jargonCount)) * 1000

engagementOf(content, engagementCount) ==
  LET engagement == Min(10, engagementCount * 3)
  IN  (IF isGeneric(content) THEN Max(0, engagement - 3) ELSE engagement) * 1000

clarityOf(readability) == Min(10000, readability \div 10)

\* a platform score made of the variety alone, without the base of 5
platformOfVarietyOnly(sentenceVariety) == Min(10000, sentenceVariety * 10)

platformOf(sentenceVariety) == Min(10000, sentenceVariety * 10 + 5000)

\* the QualityScore, every field in tenths
calculateQualityScore(content, slopCount, jargonCount, engagementCount, readability, sentenceVariety) ==
  LET authenticity == authenticityOf(slopCount, jargonCount)
      engagement   == engagementOf(content, engagementCount)
      clarity      == clarityOf(readability)
      platform     == platformOf(sentenceVariety)
      overall      == (3 * authenticity + 3 * engagement
                       + 2 * clarity + 2 * platform) \div 10
  IN  [ overall      |-> round1(overall),
        authenticity |-> round1(authenticity),
        engagement   |-> round1(engagement),
        clarity      |-> round1(clarity),
        platform     |-> round1(platform) ]

validateContent(content) ==
  LET slopFound          == detectAISlop(content)
      jargonFound        == detectCorporateJargon(content)
      engagementElements == detectEngagementElements(content)
      readabilityScore   == calculateReadability(content)
      sentenceVariety    == calculateSentenceVariety(content)
      critical ==
        IF isGeneric(content)
          THEN << <<"Content is too generic. Add specific examples, data, or insights.">> >>
          ELSE << >>
      warnings ==
        (IF Len(slopFound) > 0
           THEN << <<"AI slop detected: \"">> \o join(slopFound, "\", \"")
                   \o <<"\". Consider rewriting for authenticity.">> >>
           ELSE << >>)
        \o (IF Len(jargonFound) > 0
              THEN << <<"Corporate jargon found: \"">> \o join(jargonFound, "\", \"")
                      \o <<"\". Use plain language.">> >>
              ELSE << >>)
        \o (IF readabilityScore < 60000
              THEN << <<"Content is hard to read. Simplify sentences and use shorter words.">> >>
              ELSE << >>)
      suggestions ==
        (IF Len(engagementElements) = 0
           THEN << <<"Add engagement elements: questions, numbers, or action words.">> >>
           ELSE << >>)
        \o (IF sentenceVariety < 300
              THEN << <<"Vary sentence length for better flow.">> >>
              ELSE << >>)
  IN  [ score   |-> calculateQualityScore(content, Len(slopFound), Len(jargonFound),
                      Len(engagementElements), readabilityScore, sentenceVariety),
        issues  |-> [critical |-> critical, warnings |-> warnings,
                     suggestions |-> suggestions],
        metrics |-> [readabilityScore |-> readabilityScore,
                     sentenceVariety |-> sentenceVariety,
                     aiSlopCount |-> Len(slopFound),
                     engagementElements |-> engagementElements] ]


(***************************************************************************)
(* Shared pieces of the two strategies                                     *)
(***************************************************************************)
\* an absent optional field of the request or of the context
Undefined == "<undefined>"

\* value || fallback on a string or absent value
orElse(value, fallback) ==
  IF value = Undefined \/ value = "" THEN fallback ELSE value

\* the text with the characters at the indices in drop removed
Remove(t, drop) == Pick(t, LAMBDA i : i \notin drop)

\* replace(/^(label1|label2):\s*/i, ''): a leading role label, its colon and
\* the whitespace after it, for the first label of the alternation that matches
stripLabel(t, labels) ==
  LET lower   == toLowerCase(t)
      matches == SelectSeq(labels, LAMBDA l : startsWith(lower, Chars(l) \o <<":">>))
  IN  IF Len(matches) = 0 THEN t
      ELSE LET k == Len(matches[1]) + 1
               j == CHOOSE e \in k..Len(t) :
                      /\ \A i \in (k + 1)..e : IsWS(t[i])
                      /\ e = Len(t) \/ ~IsWS(t[e + 1])
           IN  SubSeq(t, j + 1, Len(t))

\* replace(/^["']|["']$/g, ''): one quote at the start and one at the end
stripQuotes(t) ==
  LET n == Len(t)
  IN  Remove(t, {i \in {1, n} : i >= 1 /\ i <= n /\ IsQuote(t[i])})

\* replace(/c{minLen,}/g, c repeated keep times) for a single character c
squeezeRuns(t, c, minLen, keep) ==
  LET runs == MaskRuns(Mask(t, LAMBDA ch : ch = c))
  IN  Remove(t, UNION {(runs[k][1] + keep)..runs[k][2] :
                         k \in {j \in 1..Len(runs) :
                                  runs[j][2] - runs[j][1] + 1 >= minLen}})

\* replace(/\s+/g, ' ')
collapseWhitespace(t) ==
  LET kept == Pick(t, LAMBDA i : ~IsWS(t[i]) \/ i = 1 \/ ~IsWS(t[i - 1]))
  IN  Tuple([i \in 1..Len(kept) |-> IF IsWS(kept[i]) THEN " " ELSE kept[i]])

\* replace(/\s+([.,!?])/g, '$1')
dropSpaceBeforePunct(t) ==
  LET runs == MaskRuns(Mask(t, IsWS))
  IN  Remove(t, UNION {runs[k][1]..runs[k][2] :
                         k \in {j \in 1..Len(runs) :
                                  /\ runs[j][2] < Len(t)
                                  /\ IsPunct(t[runs[j][2] + 1])}})

\* replace(/([.,!?])([A-Za-z])/g, '$1 $2')
addSpaceAfterPunct(t) ==
  Concat([i \in 1..Len(t) |->
            IF IsPunct(t[i]) /\ i < Len(t) /\ IsLetter(t[i + 1])
              THEN <<t[i], " ">> ELSE <<t[i]>>])

\* content.match(/#[\w]+/g) || [], as <<first, last>> index pairs
hashtagRuns(t) ==
  LET runs == MaskRuns(Mask(t, IsWordChar))
  IN  SelectSeq(Tuple([k \in 1..Len(runs) |-> <<runs[k][1] - 1, runs[k][2]>>]),
        LAMBDA r : r[1] >= 1 /\ t[r[1]] = "#")

\* a replace that removes nothing
stripHashtagsNone(t) == t

\* content.replace(/#[\w]+/g, '')
stripHashtags(t) ==
  LET found == hashtagRuns(t)
  IN  Remove(t, UNION {found[k][1]..found[k][2] : k \in 1..Len(found)})

\* w.charAt(0).toUpperCase() + w.slice(1)
capitalize(w) == IF Len(w) = 0 THEN w ELSE <<UpperChar(w[1])>> \o SubSeq(w, 2, Len(w))

\* hashtags.join(' ')
joinWords(words) ==
  Concat([k \in 1..Len(words) |-> IF k = 1 THEN words[k] ELSE <<" ">> \o words[k]])

\* h.replace('#', ''): the first '#' removed
dropHash(h) ==
  IF \E i \in 1..Len(h) : h[i] = "#"
    THEN Remove(h, {CHOOSE i \in 1..Len(h) : h[i] = "#" /\ \A j \in 1..(i - 1) : h[j] # "#"})
    ELSE h

\* content.split(/\s+/).length
wordCountOf(t) == Len(splitWS(t))

(***************************************************************************)
(* TwitterStrategy                                                         *)
(***************************************************************************)
TWITTER_CHAR_LIMIT == 280
TWITTER_OPTIMAL_LENGTH == 250
TWITTER_MAX_HASHTAGS == 2
TWITTER_MIN_LENGTH == 50

twitterGetConstraints ==
  [ maxLength |-> TWITTER_CHAR_LIMIT, minLength |-> TWITTER_MIN_LENGTH,
    maxHashtags |-> TWITTER_MAX_HASHTAGS, supportsThreads |-> TRUE,
    supportsMedia |-> TRUE, characterLimit |-> TWITTER_CHAR_LIMIT ]

generateSingleTweetPrompt(context) ==
  << "Create a high-performing Twitter post about: ",
     context.topic,
     "\n",
     "\n",
     "Requirements:\n",
     "- Use a ",
     orElse(context.tone, "conversational"),
     " tone\n",
     "- Target audience: ",
     orElse(context.targetAudience, "general tech audience"),
     "\n",
     "- Maximum 280 characters\n",
     "- Start with a strong hook that triggers curiosity or emotion\n",
     "- Use concrete, specific language (avoid vague generalities)\n",
     "- Include one clear insight or takeaway\n",
     "- End with a question or call-to-action to boost engagement\n",
     "\n",
     "CRITICAL - Avoid AI slop:\n",
     "- NO cliches like \"delve\", \"unlock\", \"game-changer\", \"revolutionize\"\n",
     "- NO generic platitudes or obvious statements\n",
     "- NO \"In conclusion\" or \"To summarize\"\n",
     "- NO emoji spam\n",
     "- Use specific examples over abstract concepts\n",
     "- Write like a real human, not a corporate blog\n",
     "\n",
     "Structure: [Hook] -> [Insight] -> [Call-to-action]\n",
     "\n",
     "Output only the tweet text, nothing else." >>

generateThreadPrompt(context) ==
  << "Create a high-performing Twitter thread about: ",
     context.topic,
     "\n",
     "\n",
     "Requirements:\n",
     "- Use a ",
     orElse(context.tone, "conversational"),
     " tone\n",
     "- Target audience: ",
     orElse(context.targetAudience, "general tech audience"),
     "\n",
     "- 3-5 tweets maximum\n",
     "- Each tweet must be under 280 characters\n",
     "- Thread structure:\n",
     "  1. Hook tweet (start with curiosity gap or bold statement)\n",
     "  2-3. Value tweets (insights, frameworks, examples)\n",
     "  4. Conclusion tweet (summary + call-to-action)\n",
     "\n",
     "First tweet MUST grab attention using one of these patterns:\n",
     "- \"I spent [time] learning [topic]. Here's what I discovered:\"\n",
     "- \"[Number] things about [topic] that changed how I think:\"\n",
     "- \"The biggest mistake people make with [topic]:\"\n",
     "- \"Here's why [contrarian opinion]:\"\n",
     "\n",
     "CRITICAL - Avoid AI slop:\n",
     "- NO cliches like \"delve\", \"unlock\", \"game-changer\", \"revolutionize\", \"landscape\"\n",
     "- NO generic advice that could apply to anything\n",
     "- NO emoji spam (max 1-2 per tweet)\n",
     "- Use specific examples and concrete numbers\n",
     "- Write conversationally, like you're texting a friend\n",
     "- Each tweet should provide standalone value\n",
     "\n",
     "Format: Separate each tweet with \"---\" on a new line.\n",
     "\n",
     "Output only the thread text, nothing else." >>

twitterGeneratePrompt(context) ==
  IF orElse(context.format, "single") = "thread"
    THEN generateThreadPrompt(context)
    ELSE generateSingleTweetPrompt(context)

twitterPostProcess(content) ==
  LET unlabelled == stripLabel(content, <<"tweet", "thread">>)
      unquoted   == stripQuotes(unlabelled)
      trimmed    == trim(unquoted)
      spaced     == collapseWhitespace(trimmed)
      calmer     == squeezeRuns(spaced, "!", 3, 1)
  IN  squeezeRuns(calmer, "?", 2, 1)

\* topic.split(' ').filter(w => w.length > 3), first two, capitalised behind '#'
twitterGenerateHashtags(topic) ==
  LET t     == Chars(topic)
      runs  == Runs(t, LAMBDA c : c # " ")
      words == SelectSeq(Tuple([k \in 1..Len(runs) |-> SubSeq(t, runs[k][1], runs[k][2])]),
                 LAMBDA w : Len(w) > 3)
      top   == slice0(words, 2)
  IN  Tuple([k \in 1..Len(top) |-> <<"#">> \o capitalize(top[k])])

twitterGenerateSuggestions(content, context) ==
  (IF Len(content) < 100
     THEN << <<"Consider expanding with a specific example or data point">> >> ELSE << >>)
  \o (IF ~includes(content, <<"?">>)
        THEN << <<"Add a question at the end to encourage replies">> >> ELSE << >>)
  \o (IF ~hasDigit(content)
        THEN << <<"Consider adding specific numbers or metrics for credibility">> >>
        ELSE << >>)
  \o (IF context.format = "thread" /\ ~includes(content, Chars("---"))
        THEN << <<"For threads, separate tweets with \"---\"">> >> ELSE << >>)

twitterEstimateEngagement(characterCount) ==
  IF characterCount < 100 THEN "low"
  ELSE IF characterCount > 100 /\ characterCount < TWITTER_OPTIMAL_LENGTH THEN "high"
  ELSE IF characterCount > TWITTER_OPTIMAL_LENGTH THEN "medium"
  ELSE "medium"

twitterOptimize(content, context) ==
  LET trimmed       == trim(content)
      found         == hashtagRuns(trimmed)
      foundHashtags == Tuple([k \in 1..Len(found) |->
                         SubSeq(trimmed, found[k][1], found[k][2])])
      body          == IF Len(foundHashtags) > 0
                         THEN trim(stripHashtags(trimmed)) ELSE trimmed
      kept          == IF Len(foundHashtags) > 0
                         THEN slice0(foundHashtags, TWITTER_MAX_HASHTAGS) ELSE << >>
      hashtags      == IF context.includeHashtags /\ Len(kept) = 0
                         THEN slice0(twitterGenerateHashtags(context.topic),
                                     TWITTER_MAX_HASHTAGS)
                         ELSE kept
      optimizedContent == IF Len(hashtags) > 0
                            THEN body \o <<"\n", "\n">> \o joinWords(hashtags)
                            ELSE body
      characterCount == Len(optimizedContent)
  IN  [ content  |-> optimizedContent,
        hashtags |-> Tuple([k \in 1..Len(hashtags) |-> dropHash(hashtags[k])]),
        metadata |-> [ platform |-> "twitter",
                       characterCount |-> characterCount,
                       wordCount |-> wordCountOf(optimizedContent),
                       estimatedEngagement |-> twitterEstimateEngagement(characterCount),
                       suggestions |-> twitterGenerateSuggestions(optimizedContent, context) ] ]

TWITTER_SLOP ==
  << "delve", "unlock the power", "game-changer", "revolutionize", "in conclusion",
     "in summary", "it's important to note", "tapestry", "landscape", "realm",
     "leverage", "synergy" >>

\* Math.max(0, Math.min(10, score)) of a score in tenths
clampScore(deci) == Max(0, Min(100, deci))

\* a text is valid only when nothing at all was reported
validOfNothingReported(errors, warnings) == Len(errors) = 0 /\ Len(warnings) = 0

\* isValid: errors.length === 0
validOf(errors, warnings) == Len(errors) = 0

\* the over-limit deduction taken for the too-short one
overLimitDeductionOfShort(over) == IF over THEN 10 ELSE 0

\* score -= 3 of the character-limit check, in tenths
overLimitDeduction(over) == IF over THEN 30 ELSE 0

\* content.length > this.CHAR_LIMIT with a limit that is too generous
exceedsTwice(length, limit) == length > 2 * limit

\* content.length > this.CHAR_LIMIT
exceeds(length, limit) == length > limit

\* the ValidationResult; score in tenths
twitterValidate(content) ==
  LET overLimit   == exceeds(Len(content), TWITTER_CHAR_LIMIT)
      tooShort    == Len(content) < 50
      lowerContent == toLowerCase(content)
      foundSlop   == SelectSeq(TWITTER_SLOP, LAMBDA phrase : includes(lowerContent, Chars(phrase)))
      hashtagCount == countChar(content, "#")
      hasQuestion == includes(content, <<"?">>)
      hasNumbers  == hasDigit(content)
      errors ==
        IF overLimit
          THEN << <<"Content exceeds Twitter's ", ToString(TWITTER_CHAR_LIMIT),
                    " character limit">> >>
          ELSE << >>
      warnings ==
        (IF tooShort
           THEN << <<"Content is very short. Consider adding more value.">> >> ELSE << >>)
        \o (IF Len(foundSlop) > 0
              THEN << <<"AI slop detected: \"">> \o join(foundSlop, "\", \"")
                      \o <<"\". Consider rewriting.">> >>
              ELSE << >>)
        \o (IF hashtagCount > 3
              THEN << <<"Too many hashtags. 1-2 hashtags perform better.">> >> ELSE << >>)
        \o (IF ~hasQuestion /\ Len(content) > 100
              THEN << <<"Consider ending with a question to boost engagement.">> >>
              ELSE << >>)
      score == 100 - overLimitDeduction(overLimit)
                   - (IF tooShort THEN 10 ELSE 0)
                   - 10 * Len(foundSlop)
                   - (IF hashtagCount > 3 THEN 10 ELSE 0)
                   + (IF hasNumbers THEN 10 ELSE 0)
  IN  [ isValid  |-> validOf(errors, warnings),
        errors   |-> errors,
        warnings |-> warnings,
        score    |-> clampScore(score) ]

(***************************************************************************)
(* LinkedInStrategy                                                        *)
(***************************************************************************)
LINKEDIN_CHAR_LIMIT == 3000
OPTIMAL_MIN_LENGTH == 1300
OPTIMAL_MAX_LENGTH == 2000
LINKEDIN_MIN_LENGTH == 150
HOOK_CHAR_LIMIT == 210
RECOMMENDED_HASHTAGS_MIN == 3
RECOMMENDED_HASHTAGS_MAX == 5
LINKEDIN_MAX_HASHTAGS == 7

linkedinGetConstraints ==
  [ maxLength |-> LINKEDIN_CHAR_LIMIT, minLength |-> LINKEDIN_MIN_LENGTH,
    maxHashtags |-> RECOMMENDED_HASHTAGS_MAX, supportsThreads |-> FALSE,
    supportsMedia |-> TRUE, characterLimit |-> LINKEDIN_CHAR_LIMIT ]

linkedinGeneratePrompt(context) ==
  << "Create a high-performing LinkedIn post about: ",
     context.topic,
     "\n",
     "\n",
     "Requirements:\n",
     "- Use a ",
     orElse(context.tone, "professional yet conversational"),
     " tone\n",
     "- Target audience: ",
     orElse(context.targetAudience, "professionals in the industry"),
     "\n",
     "- Length: ",
     "1300",
     "-",
     "2000",
     " characters (optimal for engagement)\n",
     "- Maximum ",
     "3000",
     " characters\n",
     "\n",
     "Structure:\n",
     "1. HOOK (first 2-3 lines, max ",
     "210",
     " chars - this shows before \"see more\"):\n",
     "   - Start with a compelling hook: bold statement, question, data point, or personal story\n",
     "   - Make it intriguing enough that readers want to click \"see more\"\n",
     "   - Examples: \"I analyzed 500 LinkedIn posts. Here's what the top performers have in common:\" OR \"Most professionals waste 10+ hours/week on this mistake:\"\n",
     "\n",
     "2. MAIN CONTENT:\n",
     "   - Use short paragraphs (2-3 lines max) with line breaks for readability\n",
     "   - Include specific examples, data, or personal experiences (not abstract concepts)\n",
     "   - Add credibility markers (years of experience, specific results, concrete numbers)\n",
     "   - Tell a story or share a case study when relevant\n",
     "   - Use bullet points or numbered lists for key takeaways\n",
     "\n",
     "3. VALUE & INSIGHTS:\n",
     "   - Provide actionable insights, not generic advice\n",
     "   - Share lessons learned or professional wisdom\n",
     "   - Include data/metrics to support claims when possible\n",
     "\n",
     "4. CLOSING:\n",
     "   - End with clear value proposition or key takeaway\n",
     "   - Include call-to-action: ",
     orElse(context.callToAction, "question for engagement or invitation to connect"),
     "\n",
     "   - Make it conversational and invite discussion\n",
     "\n",
     "Formatting:\n",
     "- Use line breaks every 2-3 sentences for readability\n",
     "- Add emojis sparingly (1-3 max) and only if they add value\n",
     "- Use --- for section breaks if needed\n",
     "- Leave hashtags for the end (we'll add them separately)\n",
     "\n",
     "CRITICAL - Write like a human professional:\n",
     "- NO AI slop: avoid \"thrilled to announce\", \"honored and humbled\", \"I'm excited to share\", \"blessed and grateful\"\n",
     "- NO lazy engagement: avoid \"Thoughts?\" or \"Agree?\" as standalone CTAs\n",
     "- NO corporate jargon: avoid \"synergy\", \"leverage\", \"circle back\", \"low-hanging fruit\", \"paradigm shift\"\n",
     "- NO cliches: avoid \"game-changer\", \"revolutionize\", \"unlock\", \"delve\"\n",
     "- NO generic platitudes that could apply to anything\n",
     "- Use specific examples over vague statements\n",
     "- Write with personality and authenticity\n",
     "- Share real experiences and concrete insights\n",
     "\n",
     "Tone guidelines:\n",
     "- Professional but approachable (not stuffy or overly formal)\n",
     "- Confident but not arrogant\n",
     "- Data-driven when relevant\n",
     "- Story-driven when appropriate\n",
     "- Human and relatable\n",
     "\n",
     "Output only the post text, nothing else. Do not include hashtags in the main text." >>

linkedinPostProcess(content) ==
  LET unlabelled == stripLabel(content, <<"linkedin post", "post">>)
      unquoted   == stripQuotes(unlabelled)
      trimmed    == trim(unquoted)
      lines      == squeezeRuns(trimmed, "\n", 3, 2)
      calmer     == squeezeRuns(lines, "!", 3, 1)
      asked      == squeezeRuns(calmer, "?", 2, 1)
      dotted     == squeezeRuns(asked, ".", 3, 3)
      tight      == dropSpaceBeforePunct(dotted)
  IN  addSpaceAfterPunct(tight)

LINKEDIN_SLOP ==
  << "thrilled to announce", "honored and humbled", "i'm excited to share",
     "blessed and grateful", "thoughts?", "agree?", "delve", "unlock",
     "game-changer", "revolutionize", "game changer", "paradigm shift", "synergy",
     "leverage", "circle back", "touch base", "low-hanging fruit",
     "move the needle", "drink the kool-aid" >>

COMMON_WORDS == <<"the", "a", "an", "and", "or", "but", "in", "on", "at", "to", "for">>

GENERAL_HASHTAGS == <<"#Leadership", "#ProfessionalDevelopment", "#CareerGrowth">>

\* the while loop of generateHashtags: general hashtags appended until the
\* recommended minimum is reached, a duplicate is met or the list runs out
RECURSIVE padHashtags(_, _)
padHashtags(hashtags, wordCount) ==
  IF Len(hashtags) < RECOMMENDED_HASHTAGS_MIN
    THEN LET index == Len(hashtags) - wordCount + 1
         IN  IF /\ index >= 1
                /\ index <= Len(GENERAL_HASHTAGS)
                /\ \A k \in 1..Len(hashtags) : hashtags[k] # Chars(GENERAL_HASHTAGS[index])
               THEN padHashtags(Append(hashtags, Chars(GENERAL_HASHTAGS[index])), wordCount)
               ELSE hashtags
    ELSE hashtags

linkedinGenerateHashtags(topic) ==
  LET split  == splitWS(toLowerCase(Chars(topic)))
      words  == SelectSeq(split,
                  LAMBDA w : Len(w) > 3
                             /\ \A k \in 1..Len(COMMON_WORDS) : w # Chars(COMMON_WORDS[k]))
      top    == slice0(words, 3)
      tagged == Tuple([k \in 1..Len(top) |-> <<"#">> \o capitalize(top[k])])
  IN  slice0(padHashtags(tagged, Len(words)), RECOMMENDED_HASHTAGS_MAX)

\* content.match(/[^.!?]+[.!?]+/g) || [content]
sentenceMatches(content) ==
  LET ends    == MaskRuns(Mask(content, IsTerminator))
      matches == SelectSeq(
                   Tuple([k \in 1..Len(ends) |->
                     <<IF k = 1 THEN 1 ELSE ends[k - 1][2] + 1, ends[k][2], ends[k][1]>>]),
                   LAMBDA m : m[3] > m[1])
  IN  IF Len(matches) = 0 THEN <<content>>
      ELSE Tuple([k \in 1..Len(matches) |-> SubSeq(content, matches[k][1], matches[k][2])])

\* the forEach of optimizeLineBreaks from sentence number index (1-based) on
RECURSIVE lineBreakLoop(_, _, _, _)
lineBreakLoop(sentences, index, optimized, lineLength) ==
  IF index > Len(sentences) THEN optimized
  ELSE LET trimmed == trim(sentences[index])
           length  == lineLength + Len(trimmed)
           added   == optimized \o trimmed
       IN  IF length > 200 \/ (index - 1 > 0 /\ index % 2 = 0)
             THEN lineBreakLoop(sentences, index + 1, added \o <<"\n", "\n">>, 0)
           ELSE IF index - 1 < Len(sentences) - 1
             THEN lineBreakLoop(sentences, index + 1, added \o <<" ">>, length)
           ELSE lineBreakLoop(sentences, index + 1, added, length)

\* a reflow that returns every body as it came
optimizeLineBreaksNone(content) == content

optimizeLineBreaks(content) ==
  LET existingBreaks == countChar(content, "\n")
      sentences      == sentenceMatches(content)
  IN  IF existingBreaks >= 4 THEN content
      ELSE IF Len(sentences) <= 2 THEN content
      ELSE trim(lineBreakLoop(sentences, 1, << >>, 0))

\* one of the literal, case-insensitive patterns matches
anyIncluded(content, phrases) ==
  LET lower == toLowerCase(content)
  IN  \E k \in 1..Len(phrases) : includes(lower, Chars(phrases[k]))

CTA_PATTERNS ==
  << "what do you think", "share your", "let me know", "drop a comment",
     "comment below", "connect with me", "follow for", "join the conversation",
     "what's your experience", "have you tried" >>

hasCallToAction(content) == anyIncluded(content, CTA_PATTERNS)

VALUE_PATTERNS ==
  << "learned", "discovered", "insight", "lesson", "strategy", "approach",
     "framework", "results", "data shows", "research", "analysis", "case study" >>

\* /\d+%/, /\d+ (years|months|weeks)/ and the literal patterns
hasValueIndicators(content) ==
  \/ \E i \in 1..(Len(content) - 1) : IsDigit(content[i]) /\ content[i + 1] = "%"
  \/ \E i \in 1..Len(content) :
       /\ IsDigit(content[i])
       /\ \E unit \in {" years", " months", " weeks"} :
            startsWith(SubSeq(content, i + 1, Len(content)), Chars(unit))
  \/ anyIncluded(content, VALUE_PATTERNS)

\* content.substring(0, HOOK_CHAR_LIMIT)
hookOf(content) == slice0(content, HOOK_CHAR_LIMIT)

linkedinGenerateSuggestions(content, context) ==
  LET hook         == hookOf(content)
      lineBreaks   == countChar(content, "\n")
      hashtagCount == countChar(content, "#")
  IN  (IF Len(content) < OPTIMAL_MIN_LENGTH
         THEN << <<"Expand to ", ToString(OPTIMAL_MIN_LENGTH), "-",
                   ToString(OPTIMAL_MAX_LENGTH),
                   " characters for optimal engagement">> >>
         ELSE << >>)
      \o (IF ~includes(hook, <<"?">>) /\ ~hasDigit(hook)
            THEN << <<"Consider adding a question or specific number in your hook">> >>
            ELSE << >>)
      \o (IF lineBreaks < 3 /\ Len(content) > 500
            THEN << <<"Add more line breaks for better readability">> >> ELSE << >>)
      \o (IF ~hasCallToAction(content)
            THEN << <<"Add a call-to-action to encourage comments and engagement">> >>
            ELSE << >>)
      \o (IF ~hasDigit(content)
            THEN << <<"Include specific numbers, data, or metrics to add credibility">> >>
            ELSE << >>)
      \o (IF ~hasValueIndicators(content)
            THEN << <<"Add concrete insights, lessons learned, or professional experiences">> >>
            ELSE << >>)
      \o (IF hashtagCount = 0 /\ context.includeHashtags
            THEN << <<"Add ", ToString(RECOMMENDED_HASHTAGS_MIN), "-",
                      ToString(RECOMMENDED_HASHTAGS_MAX), " relevant hashtags">> >>
            ELSE << >>)

linkedinEstimateEngagement(characterCount) ==
  IF characterCount < LINKEDIN_MIN_LENGTH * 2 THEN "low"
  ELSE IF characterCount >= OPTIMAL_MIN_LENGTH /\ characterCount <= OPTIMAL_MAX_LENGTH
    THEN "high"
  ELSE IF characterCount > OPTIMAL_MAX_LENGTH THEN "medium"
  ELSE "medium"

linkedinOptimize(content, context) ==
  LET trimmed       == trim(content)
      found         == hashtagRuns(trimmed)
      foundHashtags == Tuple([k \in 1..Len(found) |->
                         SubSeq(trimmed, found[k][1], found[k][2])])
      body          == IF Len(foundHashtags) > 0
                         THEN trim(stripHashtags(trimmed)) ELSE trimmed
      kept          == IF Len(foundHashtags) > 0
                         THEN slice0(foundHashtags, RECOMMENDED_HASHTAGS_MAX) ELSE << >>
      hashtags      == IF context.includeHashtags /\ Len(kept) = 0
                         THEN slice0(linkedinGenerateHashtags(context.topic),
                                     RECOMMENDED_HASHTAGS_MAX)
                         ELSE kept
      reflowed      == optimizeLineBreaks(body)
      optimizedContent == IF Len(hashtags) > 0
                            THEN reflowed \o <<"\n", "\n">> \o joinWords(hashtags)
                            ELSE reflowed
      characterCount == Len(optimizedContent)
  IN  [ content  |-> optimizedContent,
        hashtags |-> Tuple([k \in 1..Len(hashtags) |-> dropHash(hashtags[k])]),
        metadata |-> [ platform |-> "linkedin",
                       characterCount |-> characterCount,
                       wordCount |-> wordCountOf(optimizedContent),
                       estimatedEngagement |-> linkedinEstimateEngagement(characterCount),
                       suggestions |-> linkedinGenerateSuggestions(optimizedContent, context) ] ]

GENERIC_OPENINGS == <<"in today's", "in this post", "let me share", "i want to talk about">>

\* the ValidationResult; score in tenths
linkedinValidate(content) ==
  LET length       == Len(content)
      overLimit    == exceeds(length, LINKEDIN_CHAR_LIMIT)
      tooShort     == length < LINKEDIN_MIN_LENGTH
      hook         == hookOf(content)
      weakHook     == Len(hook) < 100
      genericOpening ==
        \E k \in 1..Len(GENERIC_OPENINGS) :
          startsWith(toLowerCase(hook), Chars(GENERIC_OPENINGS[k]))
      lowerContent == toLowerCase(content)
      foundSlop    == SelectSeq(LINKEDIN_SLOP, LAMBDA phrase : includes(lowerContent, Chars(phrase)))
      hashtagCount == countChar(content, "#")
      lineBreaks   == countChar(content, "\n")
      wallOfText   == length > 500 /\ lineBreaks < 3
      hasQuestion  == includes(content, <<"?">>)
      hasNumbers   == hasDigit(content)
      noEngagement == ~hasQuestion /\ ~hasCallToAction(content)
      noValue      == ~hasValueIndicators(content)
      range        == <<ToString(OPTIMAL_MIN_LENGTH), "-", ToString(OPTIMAL_MAX_LENGTH)>>
      recommended  == <<ToString(RECOMMENDED_HASHTAGS_MIN), "-",
                        ToString(RECOMMENDED_HASHTAGS_MAX)>>
      errors ==
        (IF overLimit
           THEN << <<"Content exceeds LinkedIn's ", ToString(LINKEDIN_CHAR_LIMIT),
                     " character limit">> >>
           ELSE << >>)
        \o (IF tooShort
              THEN << <<"Content is too short (minimum ", ToString(LINKEDIN_MIN_LENGTH),
                        " characters for LinkedIn)">> >>
              ELSE << >>)
      warnings ==
        (IF length < OPTIMAL_MIN_LENGTH
           THEN << <<"Content is short. Consider expanding to ">> \o range
                   \o <<" characters for better engagement.">> >>
         ELSE IF length > OPTIMAL_MAX_LENGTH
           THEN << <<"Content is long. Posts between ">> \o range
                   \o <<" characters tend to perform better.">> >>
         ELSE << >>)
        \o (IF weakHook
              THEN << <<"Hook might be too short. First 210 characters appear before \"see more\".">> >>
              ELSE << >>)
        \o (IF genericOpening
              THEN << <<"Consider a stronger hook. Avoid generic openings.">> >> ELSE << >>)
        \o (IF Len(foundSlop) > 0
              THEN << <<"LinkedIn AI slop detected: \"">> \o join(foundSlop, "\", \"")
                      \o <<"\". Rewrite for authenticity.">> >>
              ELSE << >>)
        \o (IF hashtagCount > LINKEDIN_MAX_HASHTAGS
              THEN << <<"Too many hashtags (", ToString(hashtagCount), "). ">>
                      \o recommended \o <<" hashtags perform best.">> >>
            ELSE IF hashtagCount < RECOMMENDED_HASHTAGS_MIN /\ hashtagCount > 0
              THEN << <<"Consider adding more hashtags (">> \o recommended
                      \o <<" recommended).">> >>
            ELSE << >>)
        \o (IF wallOfText
              THEN << <<"Add line breaks for readability. LinkedIn posts perform better with white space.">> >>
              ELSE << >>)
        \o (IF noEngagement
              THEN << <<"Consider adding a question or call-to-action to boost engagement.">> >>
              ELSE << >>)
        \o (IF noValue
              THEN << <<"Consider adding specific insights, data, or professional lessons.">> >>
              ELSE << >>)
      score == 100 - overLimitDeduction(overLimit)
                   - (IF tooShort THEN 20 ELSE 0)
                   - (IF length < OPTIMAL_MIN_LENGTH \/ length > OPTIMAL_MAX_LENGTH
                        THEN 5 ELSE 0)
                   - (IF weakHook THEN 5 ELSE 0)
                   - (IF genericOpening THEN 5 ELSE 0)
                   - 5 * Len(foundSlop)
                   - (IF hashtagCount > LINKEDIN_MAX_HASHTAGS THEN 10 ELSE 0)
                   - (IF wallOfText THEN 10 ELSE 0)
                   - (IF noEngagement THEN 5 ELSE 0)
                   + (IF hasNumbers THEN 5 ELSE 0)
                   - (IF noValue THEN 10 ELSE 0)
                   + (IF lineBreaks >= 4 /\ lineBreaks <= 10 THEN 5 ELSE 0)
  IN  [ isValid  |-> validOf(errors, warnings),
        errors   |-> errors,
        warnings |-> warnings,
        score    |-> clampScore(score) ]

(***************************************************************************)
(* PlatformOptimizerService: the strategy registry                         *)
(***************************************************************************)
\* the keys of the strategies map, in registration order
STRATEGY_KEYS == <<"twitter", "linkedin">>

\* strategies.get(platform.toLowerCase()), the Twitter strategy when absent
\* a lookup that compares the platform id as it was given
getStrategyExact(platform) ==
  LET matches == SelectSeq(STRATEGY_KEYS, LAMBDA k : k = platform)
  IN  IF Len(matches) = 0 THEN "twitter" ELSE matches[1]

getStrategy(platform) ==
  LET key     == toLowerCase(Chars(platform))
      matches == SelectSeq(STRATEGY_KEYS, LAMBDA k : Chars(k) = key)
  IN  IF Len(matches) = 0 THEN "twitter" ELSE matches[1]

optimizerGeneratePrompt(platform, context) ==
  IF getStrategy(platform) = "linkedin"
    THEN linkedinGeneratePrompt(context) ELSE twitterGeneratePrompt(context)

optimizerPostProcess(platform, content, context) ==
  IF getStrategy(platform) = "linkedin"
    THEN linkedinPostProcess(content) ELSE twitterPostProcess(content)

optimizerOptimize(platform, content, context) ==
  IF getStrategy(platform) = "linkedin"
    THEN linkedinOptimize(content, context) ELSE twitterOptimize(content, context)

optimizerValidate(platform, content) ==
  IF getStrategy(platform) = "linkedin"
    THEN linkedinValidate(content) ELSE twitterValidate(content)

getPlatformConstraints(platform) ==
  IF getStrategy(platform) = "linkedin"
    THEN linkedinGetConstraints ELSE twitterGetConstraints

\* strategy.postProcess(content, context)
postProcessOf(name, content) ==
  IF name = "linkedin" THEN linkedinPostProcess(content) ELSE twitterPostProcess(content)

\* strategy.optimize(content, context)
optimizeOf(name, content, context) ==
  IF name = "linkedin" THEN linkedinOptimize(content, context)
  ELSE twitterOptimize(content, context)

\* strategy.getConstraints()
getConstraintsOf(name) ==
  IF name = "linkedin" THEN linkedinGetConstraints ELSE twitterGetConstraints

(***************************************************************************)
(* OpenRouterProvider                                                      *)
(***************************************************************************)
\* an option key that is not a property of the options object
Absent == "<absent>"

\* value ?? fallback
coalesce(value, fallback) ==
  IF value = Absent \/ value = Undefined THEN fallback ELSE value

\* { ...base, ...over }: every own property of over, undefined ones included,
\* replaces the property of base
spread(base, over) ==
  [f \in DOMAIN base |-> IF over[f] # Absent THEN over[f] ELSE base[f]]

FREE_MODELS ==
  { "google/gemini-flash-1.5-8b", "meta-llama/llama-3.1-8b-instruct:free",
    "mistralai/mistral-7b-instruct:free", "nousresearch/hermes-3-llama-3.1-405b:free" }

DEFAULT_MODEL == "google/gemini-flash-1.5-8b"

\* the body OpenRouterProvider.generateContent posts for one call
requestBodyOf(model, prompt, options) ==
  [ model       |-> model,
    messages    |-> << [role |-> "user", content |-> prompt] >>,
    temperature |-> coalesce(options.temperature, "0.7"),
    max_tokens  |-> coalesce(options.maxTokens, "1000") ]

\* estimateCost in units of 1e-8 dollars: (tokens / 1000) * price per 1000
estimateCost(model, promptTokens, completionTokens) ==
  IF model \in FREE_MODELS THEN 0 ELSE promptTokens * 1 + completionTokens * 3

\* the GenerationResult built from the upstream response: the model is the
\* one the upstream reports, the cost is priced by the configured model
generationResultOf(model, data) ==
  [ content    |-> data.content,
    model      |-> data.model,
    tokensUsed |-> [prompt |-> data.usage.prompt, completion |-> data.usage.completion,
                    total |-> data.usage.total],
    cost       |-> estimateCost(model, data.usage.prompt, data.usage.completion) ]

(***************************************************************************)
(* The inputs the model draws from                                         *)
(***************************************************************************)
\* t repeated n times
Rep(t, n) == Concat([k \in 1..n |-> t])

\* the length of the over-long tweet ("a" repeated) and the number of
\* repetitions of a 192-character sentence in the over-long post
LongTweetLen == 300
LongPostRepeat == 16

LongTweet == Rep(<<"a">>, LongTweetLen)
LongPost ==
  Rep(Chars("We measured every deploy for 4 weeks and found a clear pattern in the numbers, so we changed how the team reviews code, how it ships on Fridays and how it talks about risk with everyone else. "),
      LongPostRepeat)

GenericFiller == Chars("Many people know this.")
GenericSlop ==
  Chars("Many people leverage synergy to unlock robust, seamless and innovative solutions in this realm.")
SlopNotGeneric ==
  Chars("Because we leverage synergy, robust and seamless and holistic realm were there. Because.")
GoodPost ==
  Chars("I spent 3 years building this. It failed twice. Then one small change in how we ran reviews made the whole team faster, because people stopped waiting. What would you change?")
LabelledTweet == Chars("Tweet: \"Big launch today!!!  Are you in?? #one #two #three\"")

\* what the upstream model may answer
GenTexts ==
  { << >>, GenericFiller, GenericSlop, SlopNotGeneric, GoodPost, LabelledTweet,
    LongTweet, LongPost }

\* the usage the upstream reports for a call
Usages == { [prompt |-> 100, completion |-> 20, total |-> 120] }

\* what the upstream may answer to a call
UpstreamAnswers == [ content : GenTexts, model : {DEFAULT_MODEL}, usage : Usages ]

Platforms == {"twitter", "LinkedIn", "instagram"}

OptionSets ==
  { [temperature |-> Absent, maxTokens |-> Absent],
    [temperature |-> Undefined, maxTokens |-> Undefined],
    [temperature |-> "0.2", maxTokens |-> "200"] }

Requests ==
  [ platform : Platforms, topic : {"career growth"}, tone : {Undefined},
    targetAudience : {Undefined}, includeHashtags : {Undefined, "true"},
    includeEmojis : {Undefined}, callToAction : {Undefined},
    format : {Undefined}, options : OptionSets ]

(***************************************************************************)
(* ContentGeneratorService.generateContent as a state machine              *)
(***************************************************************************)
VARIABLES
  request,            \* the ContentGenerationRequest
  pc,                 \* where generateContent stands
  context,            \* << >> or <<the ContentContext>>
  prompt,             \* the prompt of the first attempt
  calls,              \* the calls made to aiProvider.generateContent, in order
  inFlight,           \* the number of provider calls awaiting their answer
  currentModel,       \* OpenRouterProvider.currentModel
  generationResult,   \* << >> or <<the first GenerationResult>>
  retryResult,        \* << >> or <<the GenerationResult of the regeneration>>
  generatedContent,   \* the local variable generatedContent
  qualityResult,      \* << >> or <<validateContent of the first attempt>>
  optimized,          \* << >> or <<the OptimizedContent>>
  response,           \* << >> or <<the ContentGenerationResponse>>
  error,              \* << >> or <<the error generateContent rejected with>>
  resolved,           \* the strategy getStrategy returned, per pipeline step
  text,               \* the text handed to the scorer and the validators
  textQuality,        \* << >> or <<validateContent(text)>>
  verdicts,           \* per strategy, << >> or <<strategy.validate(text)>>
  strategyKey,        \* the strategy whose methods are applied to text directly
  callContext,        \* the ContentContext handed to that strategy
  processed,          \* << >> or <<strategy.postProcess(text)>>
  reprocessed,        \* << >> or <<strategy.postProcess of processed>>
  shaped,             \* << >> or <<strategy.optimize(text, callContext)>>
  requestOf,          \* per concurrent execution of generateContent, its request
  answers,            \* per execution, what the upstream answers to its calls
  pcOf,               \* per execution, where it stands
  frames              \* per activation of generateContent, its local variables

vars ==
  << request, pc, context, prompt, calls, inFlight, currentModel, generationResult,
     retryResult, generatedContent, qualityResult, optimized, response, error,
     resolved, text, textQuality, verdicts, strategyKey, callContext, processed,
     reprocessed, shaped, requestOf, answers, pcOf, frames >>

pipelineVars ==
  << request, pc, context, prompt, calls, inFlight, currentModel, generationResult,
     retryResult, generatedContent, qualityResult, optimized, response, error,
     resolved >>

textVars == << text, textQuality, verdicts >>

strategyVars == << strategyKey, callContext, processed, reprocessed, shaped >>

pairVars == << requestOf, answers, pcOf, frames >>

\* no two executions of generateContent run side by side
NoPair ==
  /\ requestOf = << >>
  /\ answers = << >>
  /\ pcOf = << >>
  /\ frames = << >>

\* no strategy method is applied outside generateContent
NoStrategyCall ==
  /\ strategyKey = "none"
  /\ callContext = << >>
  /\ processed = << >>
  /\ reprocessed = << >>
  /\ shaped = << >>

\* no text has been handed to the scorer or to a validator
NoText ==
  /\ text = << >>
  /\ textQuality = << >>
  /\ verdicts = [k \in {"twitter", "linkedin"} |-> << >>]

\* generateContent is about to run for one of the requests
Fresh(requests, position) ==
  /\ request \in requests
  /\ pc = position
  /\ context = << >>
  /\ prompt = << >>
  /\ calls = << >>
  /\ inFlight = 0
  /\ currentModel = DEFAULT_MODEL
  /\ generationResult = << >>
  /\ retryResult = << >>
  /\ generatedContent = << >>
  /\ qualityResult = << >>
  /\ optimized = << >>
  /\ response = << >>
  /\ error = << >>
  /\ resolved = << >>

Init == Fresh(Requests, "start") /\ NoText /\ NoStrategyCall /\ NoPair

\* the destructuring defaults of generateContent and the ContentContext
contextOf(req) ==
  [ topic           |-> req.topic,
    tone            |-> coalesce(req.tone, "conversational"),
    targetAudience  |-> req.targetAudience,
    includeHashtags |-> coalesce(req.includeHashtags, "false") = "true",
    includeEmojis   |-> coalesce(req.includeEmojis, "false") = "true",
    callToAction    |-> req.callToAction,
    format          |-> coalesce(req.format, "single") ]

\* the options of the first provider call
firstCallOptions(options) ==
  spread([ temperature |-> coalesce(options.temperature, "0.7"),
           maxTokens   |-> coalesce(options.maxTokens, "500") ],
         options)

\* the options of the regeneration call
retryCallOptions(options) == options

\* one call of aiProvider.generateContent
callOf(model, callPrompt, options) ==
  [ prompt |-> callPrompt, options |-> options,
    body |-> requestBodyOf(model, callPrompt, options) ]

\* corrective feedback alone, without the original prompt
improvedPromptFeedbackOnly(originalPrompt, critical) ==
  <<"IMPORTANT: Previous attempt failed with these issues: ">>
  \o Concat(critical)
  \o <<". Please address these issues.">>

\* the prompt of the regeneration call
improvedPromptOf(originalPrompt, critical) ==
  originalPrompt
  \o <<"\n\nIMPORTANT: Previous attempt failed with these issues: ">>
  \o Concat([k \in 1..Len(critical) |->
               IF k = 1 THEN critical[k] ELSE <<", ">> \o critical[k]])
  \o <<". Please address these issues.">>

\* regeneration on any critical issue, whatever the score
needsRegenerationOnCritical(quality) == Len(quality.issues.critical) > 0

\* regeneration on a low score, critical issue or not
needsRegenerationOnLowScore(quality) == quality.score.overall < 50

\* the condition of Step 5
needsRegeneration(quality) ==
  quality.score.overall < 50 /\ Len(quality.issues.critical) > 0

\* Steps 1 and 2: build the context and the prompt, issue the first call
Start ==
  /\ pc = "start"
  /\ LET ctx == contextOf(request)
         p   == optimizerGeneratePrompt(request.platform, ctx)
     IN  /\ context' = <<ctx>>
         /\ prompt' = p
         /\ calls' = <<callOf(currentModel, p, firstCallOptions(request.options))>>
  /\ inFlight' = 1
  /\ resolved' = Append(resolved, <<"generatePrompt", getStrategy(request.platform)>>)
  /\ pc' = "generating"
  /\ UNCHANGED << request, currentModel, generationResult, retryResult,
                  generatedContent, qualityResult, optimized, response, error, textVars, strategyVars, pairVars >>

\* the calls in flight when a call has been issued and nobody awaits it
settleNone(n) == n

\* the calls in flight once the awaited call has settled
settle(n) == n - 1

\* the first call answers
FirstCallReturns ==
  /\ pc = "generating"
  /\ inFlight = 1
  /\ \E data \in UpstreamAnswers :
       LET result == generationResultOf(currentModel, data)
       IN  /\ generationResult' = <<result>>
           /\ generatedContent' = result.content
  /\ inFlight' = settle(inFlight)
  /\ pc' = "post_processing"
  /\ UNCHANGED << request, context, prompt, calls, currentModel, retryResult,
                  qualityResult, optimized, response, error, resolved, textVars, strategyVars, pairVars >>

\* a rejection that is caught and ignored: the pipeline carries on
onRejectionSwallowed == "optimizing"

\* where generateContent stands after a provider call rejected: nothing catches
\* the rejection, so generateContent rejects with it
onRejection == "failed"

\* a provider call throws: the await rethrows and generateContent rejects
CallFails ==
  /\ pc \in {"generating", "regenerating"}
  /\ inFlight = 1
  /\ inFlight' = settle(inFlight)
  /\ error' = <<"OpenRouter API error">>
  /\ pc' = onRejection
  /\ UNCHANGED << request, context, prompt, calls, currentModel, generationResult,
                  retryResult, generatedContent, qualityResult, optimized, response,
                  resolved, textVars, strategyVars, pairVars >>

\* Step 3
PostProcess ==
  /\ pc = "post_processing"
  /\ generatedContent' =
       optimizerPostProcess(request.platform, generatedContent, context[1])
  /\ resolved' = Append(resolved, <<"postProcess", getStrategy(request.platform)>>)
  /\ pc' = "scoring"
  /\ UNCHANGED << request, context, prompt, calls, inFlight, currentModel,
                  generationResult, retryResult, qualityResult, optimized, response,
                  error, textVars, strategyVars, pairVars >>

\* Step 4
Score ==
  /\ pc = "scoring"
  /\ qualityResult' = <<validateContent(generatedContent)>>
  /\ pc' = "scored"
  /\ UNCHANGED << request, context, prompt, calls, inFlight, currentModel,
                  generationResult, retryResult, generatedContent, optimized,
                  response, error, resolved, textVars, strategyVars, pairVars >>

\* Step 5, the branch taken: issue the regeneration call
Regenerate ==
  /\ pc = "scored"
  /\ needsRegeneration(qualityResult[1])
  /\ calls' = Append(calls,
       callOf(currentModel,
              improvedPromptOf(prompt, qualityResult[1].issues.critical),
              retryCallOptions(request.options)))
  /\ inFlight' = inFlight + 1
  /\ pc' = "regenerating"
  /\ UNCHANGED << request, context, prompt, currentModel, generationResult,
                  retryResult, generatedContent, qualityResult, optimized, response,
                  error, resolved, textVars, strategyVars, pairVars >>

\* Step 5, the branch not taken
SkipRegeneration ==
  /\ pc = "scored"
  /\ ~needsRegeneration(qualityResult[1])
  /\ pc' = "optimizing"
  /\ UNCHANGED << request, context, prompt, calls, inFlight, currentModel,
                  generationResult, retryResult, generatedContent, qualityResult,
                  optimized, response, error, resolved, textVars, strategyVars, pairVars >>

\* a retry loop: the regenerated text is scored again
afterRetryScoredAgain == "scoring"

\* the position after the regenerated text has been post-processed
afterRetry == "optimizing"

\* the regeneration call answers and its text is post-processed
RetryReturns ==
  /\ pc = "regenerating"
  /\ inFlight = 1
  /\ \E data \in UpstreamAnswers :
       LET result == generationResultOf(currentModel, data)
       IN  /\ retryResult' = <<result>>
           /\ generatedContent' =
                optimizerPostProcess(request.platform, result.content, context[1])
  /\ inFlight' = settle(inFlight)
  /\ resolved' = Append(resolved, <<"postProcess", getStrategy(request.platform)>>)
  /\ pc' = afterRetry
  /\ UNCHANGED << request, context, prompt, calls, currentModel, generationResult,
                  qualityResult, optimized, response, error, textVars, strategyVars, pairVars >>

\* Step 6
Optimize ==
  /\ pc = "optimizing"
  /\ optimized' = <<optimizerOptimize(request.platform, generatedContent, context[1])>>
  /\ resolved' = Append(resolved, <<"optimize", getStrategy(request.platform)>>)
  /\ pc' = "final_validating"
  /\ UNCHANGED << request, context, prompt, calls, inFlight, currentModel,
                  generationResult, retryResult, generatedContent, qualityResult,
                  response, error, textVars, strategyVars, pairVars >>

\* suggestions that leave the platform warnings out
suggestionsOfQualityOnly(platformWarnings, qualitySuggestions) == qualitySuggestions

\* suggestions: [...platformValidation.warnings, ...finalQuality.issues.suggestions]
suggestionsOf(platformWarnings, qualitySuggestions) ==
  platformWarnings \o qualitySuggestions

\* a verdict that looks at the quality issues alone
responseValidOfQualityOnly(platformValidation, finalQuality) ==
  Len(finalQuality.issues.critical) = 0

\* a verdict that looks at the platform validation alone
responseValidOfPlatformOnly(platformValidation, finalQuality) ==
  platformValidation.isValid

\* validation.isValid of the response:
\* platformValidation.isValid && finalQuality.issues.critical.length === 0
responseValidOf(platformValidation, finalQuality) ==
  platformValidation.isValid /\ Len(finalQuality.issues.critical) = 0

\* the ContentGenerationResponse
responseOf(req, result, opt, platformValidation, finalQuality) ==
  [ content  |-> opt.content,
    platform |-> req.platform,
    hashtags |-> opt.hashtags,
    metadata |-> [ model |-> result.model,
                   provider |-> "openrouter",
                   tokensUsed |-> result.tokensUsed.total,
                   cost |-> result.cost,
                   qualityScore |-> finalQuality.score.overall,
                   characterCount |-> opt.metadata.characterCount,
                   wordCount |-> opt.metadata.wordCount,
                   estimatedEngagement |-> opt.metadata.estimatedEngagement ],
    validation |-> [ isValid |-> responseValidOf(platformValidation, finalQuality),
                     score |-> platformValidation.score,
                     warnings |-> platformValidation.warnings
                                  \o finalQuality.issues.warnings,
                     suggestions |-> suggestionsOf(platformValidation.warnings,
                                       finalQuality.issues.suggestions) ] ]

\* Step 7 and the response
FinalValidate ==
  /\ pc = "final_validating"
  /\ response' =
       <<responseOf(request, generationResult[1], optimized[1],
                    optimizerValidate(request.platform, optimized[1].content),
                    validateContent(optimized[1].content))>>
  /\ resolved' = Append(resolved, <<"validate", getStrategy(request.platform)>>)
  /\ pc' = "done"
  /\ UNCHANGED << request, context, prompt, calls, inFlight, currentModel,
                  generationResult, retryResult, generatedContent, qualityResult,
                  optimized, error, textVars, strategyVars, pairVars >>

Next ==
  \/ Start
  \/ FirstCallReturns
  \/ CallFails
  \/ PostProcess
  \/ Score
  \/ Regenerate
  \/ SkipRegeneration
  \/ RetryReturns
  \/ Optimize
  \/ FinalValidate

Spec == Init /\ [][Next]_vars

Positions ==
  { "start", "generating", "post_processing", "scoring", "scored", "regenerating",
    "optimizing", "final_validating", "done", "failed" }

\* generateContent has a step to take: a synchronous step to run, or an
\* awaited provider call, which settles (the HTTP client times out)
CanStep ==
  \/ pc \in {"start", "post_processing", "scoring", "scored", "optimizing",
              "final_validating"}
  \/ pc \in {"generating", "regenerating"} /\ inFlight = 1

\* generateContent moves to another position
Proceed == CanStep /\ pc' \in Positions \ {pc}

\* generateContent does not stop while it has a step to take
FairSpec == Spec /\ WF_pc(Proceed)

(***************************************************************************)
(* The scorer and the validators applied to texts                          *)
(***************************************************************************)
\* the most fragments a text is put together from
MaxParts == 2

Fragments ==
  << Chars("Many people leverage synergy to unlock robust, seamless and innovative realm shifts. "),
     Chars("Stop guessing.\n1. Learn from 3 tests? "),
     Chars("Tweet: \"Wow!!!  Really??\" "),
     Chars("Launch day #one #two #three #four. "),
     Chars("Because we circle back and touch base, we drill down. "),
     Chars("We measured every deploy for a month\n\nand found a clear pattern "),
     Chars("   "),
     Chars("In today's world it is important to note that things change") >>

Texts ==
  { Concat([k \in 1..Len(parts) |-> Fragments[parts[k]]]) :
      parts \in UNION { [1..n -> 1..Len(Fragments)] : n \in 0..MaxParts } }
  \cup GenTexts

\* generateContent does not run
Off ==
  Fresh({CHOOSE r \in Requests : r.platform = "twitter"}, "off")

InitText ==
  /\ Off
  /\ NoStrategyCall
  /\ NoPair
  /\ text \in Texts
  /\ textQuality = << >>
  /\ verdicts = [k \in {"twitter", "linkedin"} |-> << >>]

\* ContentValidatorService.validateContent(text)
ScoreText ==
  /\ textQuality = << >>
  /\ textQuality' = <<validateContent(text)>>
  /\ UNCHANGED << text, verdicts, pipelineVars, strategyVars, pairVars >>

\* TwitterStrategy.validate(text)
ValidateTweet ==
  /\ verdicts["twitter"] = << >>
  /\ verdicts' = [verdicts EXCEPT !["twitter"] = <<twitterValidate(text)>>]
  /\ UNCHANGED << text, textQuality, pipelineVars, strategyVars, pairVars >>

\* LinkedInStrategy.validate(text)
ValidatePost ==
  /\ verdicts["linkedin"] = << >>
  /\ verdicts' = [verdicts EXCEPT !["linkedin"] = <<linkedinValidate(text)>>]
  /\ UNCHANGED << text, textQuality, pipelineVars, strategyVars, pairVars >>

NextText ==
  \/ ScoreText
  \/ ValidateTweet
  \/ ValidatePost

SpecText == InitText /\ [][NextText]_vars

(***************************************************************************)
(* The methods of one strategy applied to a text                           *)
(***************************************************************************)
\* how many times a role label is repeated and a wrapping quote nested, and
\* how far around the ends of the tweet length band the lengths lie
MaxWraps == 2
BandSlack == 1

\* body behind labels copies of label and inside quotes pairs of double quotes
Wrapped(label, labels, quotes, body) ==
  Rep(Chars(label), labels) \o Rep(<<"\"">>, quotes) \o body \o Rep(<<"\"">>, quotes)

WrappedTexts ==
  { Wrapped(label, labels, quotes, Chars("Big launch today")) :
      label \in {"Tweet: ", "Post: "}, labels \in 0..MaxWraps, quotes \in 0..MaxWraps }

BandTexts ==
  { Rep(<<"a">>, n) :
      n \in ((100 - BandSlack)..(100 + BandSlack))
             \cup ((TWITTER_OPTIMAL_LENGTH - BandSlack)..(TWITTER_OPTIMAL_LENGTH + BandSlack)) }

PlainTexts ==
  { << >>,
    Chars("   "),
    Chars("Well done !! !! Right ?Yes , truly .Next"),
    Chars("#one #two #three #four #five #six"),
    Chars("Launch day #one #two #three #four #five #six is here. Are you in?"),
    Chars(" 'padded' "),
    Chars("One idea here.\nTwo ideas there.\nThree ideas now.\nFour ideas then.\nFive ideas done."),
    Chars("We tried it\non a Friday. It held. Nobody noticed! Would you? #ship"),
    Rep(<<"a">>, 201) \o Chars(". Then we shipped it. It worked. Nobody was paged"),
    GoodPost,
    LabelledTweet }

StrategyTexts == WrappedTexts \cup BandTexts \cup PlainTexts

Topics ==
  { "career growth", "leadership", "ai", "growth leadership",
    "the future of remote work teams" }

CallContexts ==
  [ topic : Topics, tone : {"conversational"}, targetAudience : {Undefined},
    includeHashtags : BOOLEAN, includeEmojis : {FALSE}, callToAction : {Undefined},
    format : {"single"} ]

InitStrategy ==
  /\ Off
  /\ NoPair
  /\ textQuality = << >>
  /\ verdicts = [k \in {"twitter", "linkedin"} |-> << >>]
  /\ strategyKey \in {"twitter", "linkedin"}
  /\ callContext \in CallContexts
  /\ text \in StrategyTexts
  /\ processed = << >>
  /\ reprocessed = << >>
  /\ shaped = << >>

\* strategy.postProcess(text, callContext)
PostProcessText ==
  /\ processed = << >>
  /\ processed' = <<postProcessOf(strategyKey, text)>>
  /\ UNCHANGED << strategyKey, callContext, reprocessed, shaped, textVars, pipelineVars, pairVars >>

\* strategy.postProcess applied to what postProcess returned
PostProcessAgain ==
  /\ processed # << >>
  /\ reprocessed = << >>
  /\ reprocessed' = <<postProcessOf(strategyKey, processed[1])>>
  /\ UNCHANGED << strategyKey, callContext, processed, shaped, textVars, pipelineVars, pairVars >>

\* strategy.optimize(text, callContext)
OptimizeText ==
  /\ shaped = << >>
  /\ shaped' = <<optimizeOf(strategyKey, text, callContext)>>
  /\ UNCHANGED << strategyKey, callContext, processed, reprocessed, textVars, pipelineVars, pairVars >>

NextStrategy ==
  \/ PostProcessText
  \/ PostProcessAgain
  \/ OptimizeText

SpecStrategy == InitStrategy /\ [][NextStrategy]_vars

(***************************************************************************)
(* Two executions of generateContent on the one service instance           *)
(***************************************************************************)
Executions == {"first", "second"}

PairRequests ==
  { r \in Requests :
      /\ r.platform \in {"twitter", "LinkedIn"}
      /\ r.includeHashtags = "true"
      /\ r.options.temperature = Absent }

\* what the upstream does with a call: it answers with data, or the call rejects
Answered(content, tokens) ==
  [ ok |-> TRUE,
    data |-> [content |-> content, model |-> DEFAULT_MODEL,
              usage |-> [prompt |-> tokens - 20, completion |-> 20, total |-> tokens]] ]

Rejecting == [Answered(<< >>, 20) EXCEPT !.ok = FALSE]

\* the answers to the first call and to the regeneration call of an execution
PairAnswers ==
  { [first |-> Answered(GenericSlop, 120), retry |-> Answered(LabelledTweet, 240)],
    [first |-> Answered(GenericSlop, 120), retry |-> Rejecting],
    [first |-> Answered(GoodPost, 130), retry |-> Rejecting],
    [first |-> Rejecting, retry |-> Rejecting] }

\* the local variables of an activation that has not run yet
emptyFrame ==
  [ context |-> << >>, prompt |-> << >>, generationResult |-> << >>,
    generatedContent |-> << >>, qualityResult |-> << >>, calls |-> << >>,
    optimized |-> << >>, response |-> << >> ]

\* one frame for both executions, as fields of the service would be
frameShared(e) == "first"

\* the activation of generateContent an execution runs in: its own
frameOf(e) == e

InitPair ==
  /\ Off
  /\ NoText
  /\ NoStrategyCall
  /\ requestOf \in [Executions -> PairRequests]
  /\ answers \in [Executions -> PairAnswers]
  /\ pcOf = [e \in Executions |-> "start"]
  /\ frames = [e \in Executions |-> emptyFrame]

\* Steps 6 and 7 and the response, from the text that reached Step 6
finishOf(req, ctx, result, content) ==
  LET opt == optimizerOptimize(req.platform, content, ctx)
  IN  responseOf(req, result, opt, optimizerValidate(req.platform, opt.content),
                 validateContent(opt.content))

\* The steps of an execution are the stretches of code between two awaits, cut
\* again at the pipeline's steps: the event loop runs each stretch without
\* interruption, so these steps interleave in more ways than the code does.

\* from the entry of generateContent to its first await
Begin(e) ==
  /\ pcOf[e] = "start"
  /\ \E ctx \in {contextOf(requestOf[e])} :
     \E p \in {optimizerGeneratePrompt(requestOf[e].platform, ctx)} :
       frames' = [frames EXCEPT ![frameOf(e)] =
                    [@ EXCEPT !.context = <<ctx>>,
                              !.prompt = p,
                              !.calls = <<callOf(currentModel, p,
                                            firstCallOptions(requestOf[e].options))>>]]
  /\ pcOf' = [pcOf EXCEPT ![e] = "generating"]
  /\ UNCHANGED << requestOf, answers, pipelineVars, textVars, strategyVars >>

\* the first await resumes with an answer, Step 3
FirstAnswer(e) ==
  /\ pcOf[e] = "generating"
  /\ answers[e].first.ok
  /\ \E result \in {generationResultOf(currentModel, answers[e].first.data)} :
       frames' = [frames EXCEPT ![frameOf(e)] =
                    [@ EXCEPT !.generationResult = <<result>>,
                              !.generatedContent =
                                optimizerPostProcess(requestOf[e].platform, result.content,
                                                     frames[frameOf(e)].context[1])]]
  /\ pcOf' = [pcOf EXCEPT ![e] = "scoring"]
  /\ UNCHANGED << requestOf, answers, pipelineVars, textVars, strategyVars >>

\* Steps 4 and 5: the score, and the regeneration call and its await when the
\* score asks for it
ScoreAndDecide(e) ==
  /\ pcOf[e] = "scoring"
  /\ \E frame \in {frames[frameOf(e)]} :
     \E quality \in {validateContent(frame.generatedContent)} :
       IF needsRegeneration(quality)
         THEN /\ frames' = [frames EXCEPT ![frameOf(e)] =
                             [frame EXCEPT !.qualityResult = <<quality>>,
                                           !.calls =
                                Append(@, callOf(currentModel,
                                  improvedPromptOf(frame.prompt, quality.issues.critical),
                                  retryCallOptions(requestOf[e].options)))]]
              /\ pcOf' = [pcOf EXCEPT ![e] = "regenerating"]
         ELSE /\ frames' = [frames EXCEPT ![frameOf(e)] =
                             [frame EXCEPT !.qualityResult = <<quality>>]]
              /\ pcOf' = [pcOf EXCEPT ![e] = "optimizing"]
  /\ UNCHANGED << requestOf, answers, pipelineVars, textVars, strategyVars >>

\* the second await resumes with an answer, postProcess
RetryAnswer(e) ==
  /\ pcOf[e] = "regenerating"
  /\ answers[e].retry.ok
  /\ frames' = [frames EXCEPT ![frameOf(e)].generatedContent =
                  optimizerPostProcess(requestOf[e].platform,
                    generationResultOf(currentModel, answers[e].retry.data).content,
                    frames[frameOf(e)].context[1])]
  /\ pcOf' = [pcOf EXCEPT ![e] = afterRetry]
  /\ UNCHANGED << requestOf, answers, pipelineVars, textVars, strategyVars >>

\* Step 6
OptimizeOwn(e) ==
  /\ pcOf[e] = "optimizing"
  /\ frames' = [frames EXCEPT ![frameOf(e)].optimized =
                  <<optimizerOptimize(requestOf[e].platform,
                                      frames[frameOf(e)].generatedContent,
                                      frames[frameOf(e)].context[1])>>]
  /\ pcOf' = [pcOf EXCEPT ![e] = "final_validating"]
  /\ UNCHANGED << requestOf, answers, pipelineVars, textVars, strategyVars >>

\* Step 7 and the response
ValidateOwn(e) ==
  /\ pcOf[e] = "final_validating"
  /\ \E frame \in {frames[frameOf(e)]} :
       frames' = [frames EXCEPT ![frameOf(e)].response =
                    <<responseOf(requestOf[e], frame.generationResult[1],
                                 frame.optimized[1],
                                 optimizerValidate(requestOf[e].platform,
                                                   frame.optimized[1].content),
                                 validateContent(frame.optimized[1].content))>>]
  /\ pcOf' = [pcOf EXCEPT ![e] = "done"]
  /\ UNCHANGED << requestOf, answers, pipelineVars, textVars, strategyVars >>

\* the awaited call rejects and generateContent rejects with it
Rejected(e) ==
  /\ \/ pcOf[e] = "generating" /\ ~answers[e].first.ok
     \/ pcOf[e] = "regenerating" /\ ~answers[e].retry.ok
  /\ pcOf' = [pcOf EXCEPT ![e] = onRejection]
  /\ UNCHANGED << requestOf, answers, frames, pipelineVars, textVars, strategyVars >>

NextPair ==
  \E e \in Executions :
    \/ Begin(e)
    \/ FirstAnswer(e)
    \/ ScoreAndDecide(e)
    \/ RetryAnswer(e)
    \/ OptimizeOwn(e)
    \/ ValidateOwn(e)
    \/ Rejected(e)

SpecPair == InitPair /\ [][NextPair]_vars

(***************************************************************************)
(* Properties of generateContent                                           *)
(***************************************************************************)
\* the pipeline has passed Step 5
PastRegenerationPoint ==
  \/ pc \in {"regenerating", "optimizing", "final_validating", "done"}
  \/ pc = "failed" /\ qualityResult # << >>

\* the steps of the pipeline that were logged under the given name
StepsNamed(name) == SelectSeq(resolved, LAMBDA entry : entry[1] = name)

\* C1: in every execution of generateContent the generator is called at most
\* twice, and once the second attempt has returned the pipeline only moves
\* on to optimize, validate and the response: no third attempt
C1_AtMostTwoGeneratorCalls ==
  /\ Len(calls) <= 2
  /\ retryResult # << >> =>
       /\ pc \in {"optimizing", "final_validating", "done"}
       /\ inFlight = 0

\* a second attempt whose text would itself call for regeneration, and the
\* pipeline is done after two calls
C1_Witness ==
  /\ pc = "done"
  /\ Len(calls) = 2
  /\ LET again == validateContent(generatedContent)
     IN  again.score.overall < 50 /\ Len(again.issues.critical) > 0

\* C2: the regeneration (second call and its postProcess) runs if and only if
\* the first post-processed text scored overall < 5 with a non-empty list of
\* critical issues; otherwise exactly one generator call is made
C2_RegenerationIffLowAndCritical ==
  PastRegenerationPoint =>
    LET first == qualityResult[1]
        low   == first.score.overall < 50
        crit  == first.issues.critical # << >>
    IN  /\ (Len(calls) = 2) <=> (low /\ crit)
        /\ ~(low /\ crit) => Len(calls) = 1 /\ retryResult = << >>
        /\ pc = "done" => Len(StepsNamed("postProcess")) = Len(calls)

\* the pipeline is done after a regeneration and two postProcess steps
C2_Witness ==
  /\ pc = "done"
  /\ Len(calls) = 2
  /\ Len(StepsNamed("postProcess")) = 2
  /\ qualityResult[1].score.overall < 50

\* every text the generator has returned was flagged as generic by the scorer
AllGeneric ==
  /\ qualityResult # << >>
  /\ qualityResult[1].issues.critical # << >>
  /\ retryResult # << >> => isGeneric(generatedContent)

\* C3 as stated: a generator that only returns generic filler leads to
\* exactly one regeneration
C3_GenericAlwaysRegenerates ==
  (pc = "done" /\ AllGeneric) => Len(calls) = 2

\* C3: with a generator that only returns generic filler and never fails, one
\* regeneration occurs when the first text scored overall < 5 and none
\* otherwise, and the pipeline reaches DONE with a response whatever the
\* score of the regenerated text
C3_GenericRegeneratesOnceIfLow ==
  /\ [](pc = "done" /\ AllGeneric =>
          /\ response # << >>
          /\ Len(calls) = IF qualityResult[1].score.overall < 50 THEN 2 ELSE 1)
  /\ <>(pc = "done" \/ pc = "failed")

\* generic filler twice, one regeneration, and a response
C3_Witness ==
  /\ pc = "done"
  /\ AllGeneric
  /\ retryResult # << >>
  /\ response # << >>

\* C4: the second generator call is issued only after the first has returned
\* and its text has been post-processed and scored; two calls of one request
\* are never in flight together
C4_SequentialGeneratorCalls ==
  /\ inFlight <= 1
  /\ Len(calls) = 2 =>
       /\ generationResult # << >>
       /\ Len(StepsNamed("postProcess")) >= 1
       /\ qualityResult # << >>

\* the regeneration call is in flight, alone
C4_Witness ==
  /\ pc = "regenerating"
  /\ Len(calls) = 2
  /\ inFlight = 1

\* C5: once a generator call has failed, generateContent has failed with the
\* error: no response, no optimize or validate step, no call in flight and
\* nothing further happens for the request
C5_FailurePropagates ==
  error # << >> =>
    /\ response = << >>
    /\ optimized = << >>
    /\ StepsNamed("optimize") = << >>
    /\ StepsNamed("validate") = << >>
    /\ inFlight = 0
    /\ ~ENABLED Next

\* the regeneration call failed
C5_Witness ==
  /\ error # << >>
  /\ Len(calls) = 2
  /\ qualityResult # << >>

\* the places of the critical issues in the feedback, in increasing order
InOrder(feedback, critical) ==
  \E at \in [1..Len(critical) -> 1..Len(feedback)] :
    /\ \A k \in 1..Len(critical) :
         /\ at[k] + Len(critical[k]) - 1 <= Len(feedback)
         /\ SubSeq(feedback, at[k], at[k] + Len(critical[k]) - 1) = critical[k]
    /\ \A k \in 1..(Len(critical) - 1) : at[k] + Len(critical[k]) <= at[k + 1]

\* C6: the prompt of the second call starts with the original prompt,
\* unmodified, and goes on with feedback that holds every critical issue of
\* the first scoring in the order they were raised
C6_RegenerationPromptExtendsOriginal ==
  Len(calls) = 2 =>
    LET first  == calls[1].prompt
        second == calls[2].prompt
    IN  /\ first = prompt
        /\ Len(second) > Len(first)
        /\ SubSeq(second, 1, Len(first)) = first
        /\ InOrder(SubSeq(second, Len(first) + 1, Len(second)),
                   qualityResult[1].issues.critical)

\* a regeneration call was made after a scoring that raised a critical issue
C6_Witness ==
  /\ Len(calls) = 2
  /\ Len(qualityResult[1].issues.critical) = 1
  /\ Len(calls[2].prompt) = Len(prompt) + 3

\* the strategy a platform id stands for
StrategyFor(platform) ==
  IF platform \in {"linkedin", "LinkedIn", "LINKEDIN"} THEN "linkedin" ELSE "twitter"

\* C7: getStrategy returns the strategy registered under the platform id up
\* to letter case and the Twitter strategy for every other id, and all the
\* steps of a request run with that one strategy
C7_OneStrategyForAllSteps ==
  LET strategy == StrategyFor(request.platform)
  IN  /\ \A k \in 1..Len(resolved) : resolved[k][2] = strategy
      /\ getStrategy(request.platform) = strategy
      /\ prompt # << >> =>
           prompt = IF strategy = "linkedin"
                      THEN linkedinGeneratePrompt(context[1])
                      ELSE twitterGeneratePrompt(context[1])
      /\ optimized # << >> =>
           optimized[1] = IF strategy = "linkedin"
                            THEN linkedinOptimize(generatedContent, context[1])
                            ELSE twitterOptimize(generatedContent, context[1])

\* a request for "LinkedIn" went through all the steps with the LinkedIn strategy
C7_Witness ==
  /\ pc = "done"
  /\ request.platform = "LinkedIn"
  /\ Len(resolved) >= 4
  /\ \A k \in 1..Len(resolved) : resolved[k][2] = "linkedin"

(***************************************************************************)
(* Properties of the scorer and the validators                             *)
(***************************************************************************)
\* C8: each of the five fields of the QualityScore lies in [0, 10]
C8_ScoreFieldsInRange ==
  textQuality # << >> =>
    \A field \in {"overall", "authenticity", "engagement", "clarity", "platform"} :
      /\ textQuality[1].score[field] >= 0
      /\ textQuality[1].score[field] <= 100

\* a text with so many slop phrases that the authenticity is clamped
C8_Witness ==
  /\ textQuality # << >>
  /\ textQuality[1].metrics.aiSlopCount >= 6
  /\ textQuality[1].score.authenticity = 0

\* C9 as stated: the empty text scores overall 0 and readability 0
C9_EmptyScoresZero ==
  (text = << >> /\ textQuality # << >>) =>
    /\ textQuality[1].score.overall = 0
    /\ textQuality[1].metrics.readabilityScore = 0

\* C9: the empty text is scored without an error, with readability 0,
\* authenticity 10, engagement 0, clarity 0, platform 10 and overall 5.0
C9_EmptyScoresFive ==
  (text = << >> /\ textQuality # << >>) =>
    /\ textQuality[1].metrics.readabilityScore = 0
    /\ textQuality[1].score =
         [overall |-> 50, authenticity |-> 100, engagement |-> 0,
          clarity |-> 0, platform |-> 100]

\* the empty text has been scored
C9_Witness == text = << >> /\ textQuality # << >>

\* the over-limit error of each strategy
OverLimitError ==
  [ twitter  |-> <<"Content exceeds Twitter's ", "280", " character limit">>,
    linkedin |-> <<"Content exceeds LinkedIn's ", "3000", " character limit">> ]

\* C10: validate of a text longer than the strategy's maxLength (280 for
\* Twitter, 3000 for LinkedIn) is not valid and lists the over-limit error
C10_OverLimitIsInvalid ==
  \A k \in {"twitter", "linkedin"} :
    (verdicts[k] # << >> /\ Len(text) > (IF k = "twitter" THEN 280 ELSE 3000)) =>
      /\ ~verdicts[k][1].isValid
      /\ \E e \in 1..Len(verdicts[k][1].errors) :
           verdicts[k][1].errors[e] = OverLimitError[k]

\* a text over both limits has been through both validators
C10_Witness ==
  /\ Len(text) > 3000
  /\ verdicts["twitter"] # << >>
  /\ verdicts["linkedin"] # << >>

\* C11: for both strategies the ValidationResult is invalid exactly when its
\* errors list is not empty, whatever its warnings, and its score lies in
\* [0, 10]
C11_InvalidIffErrors ==
  \A k \in {"twitter", "linkedin"} :
    verdicts[k] # << >> =>
      /\ verdicts[k][1].isValid <=> verdicts[k][1].errors = << >>
      /\ verdicts[k][1].score >= 0
      /\ verdicts[k][1].score <= 100

\* a tweet with warnings and no error is valid
C11_Witness ==
  /\ verdicts["twitter"] # << >>
  /\ Len(verdicts["twitter"][1].warnings) >= 2
  /\ verdicts["twitter"][1].errors = << >>
  /\ verdicts["twitter"][1].isValid

\* C15: Twitter validate of a text over 280 characters with no slop phrase,
\* no '#' and no digit is invalid, lists the over-limit error and scores
\* exactly 7
C15_OverLimitTweetScoresSeven ==
  ( /\ verdicts["twitter"] # << >>
    /\ Len(text) > 280
    /\ \A i \in 1..Len(text) : text[i] \notin DigitSet \cup {"#"}
    /\ \A k \in 1..Len(TWITTER_SLOP) : ~includes(toLowerCase(text), Chars(TWITTER_SLOP[k])) )
  => /\ ~verdicts["twitter"][1].isValid
     /\ verdicts["twitter"][1].errors = <<OverLimitError["twitter"]>>
     /\ verdicts["twitter"][1].score = 70

\* "a" repeated over the limit has been validated as a tweet
C15_Witness ==
  /\ text = LongTweet
  /\ verdicts["twitter"] # << >>
  /\ verdicts["twitter"][1].score = 70

\* how many phrases of list occur in the text, whatever the case of the
\* text's letters, each phrase counted once
occurring(list) ==
  Cardinality({ k \in 1..Len(list) : includes(toLowerCase(text), Chars(list[k])) })

\* C16: authenticity is 10 - 2 * slopCount - jargonCount clamped to [0, 10],
\* the counts being the numbers of list phrases that occur in the content, so
\* that three or more slop phrases give an authenticity of at most 4
C16_AuthenticityFormula ==
  textQuality # << >> =>
    /\ textQuality[1].score.authenticity
         = 10 * Max(0, Min(10, 10 - 2 * occurring(AI_SLOP_PHRASES) - occurring(CORPORATE_JARGON)))
    /\ occurring(AI_SLOP_PHRASES) >= 3 => textQuality[1].score.authenticity <= 40

\* a scored text with one slop phrase and three jargon phrases, where no
\* clamp acts
C16_Witness ==
  /\ textQuality # << >>
  /\ occurring(AI_SLOP_PHRASES) = 1
  /\ occurring(CORPORATE_JARGON) = 3
  /\ textQuality[1].score.authenticity = 50

\* what the platform's strategy says of the returned content
platformVerdict ==
  IF StrategyFor(request.platform) = "linkedin"
    THEN linkedinValidate(response[1].content)
    ELSE twitterValidate(response[1].content)

\* C19: in a response, validation.warnings is the platform warnings followed
\* by the quality warnings of the final content, and validation.suggestions
\* is the platform warnings followed by the quality suggestions, in order and
\* with nothing removed
C19_ValidationListsConcatenated ==
  response # << >> =>
    LET platformWarnings == platformVerdict.warnings
        finalQuality     == validateContent(response[1].content)
        v                == response[1].validation
        n                == Len(platformWarnings)
    IN  /\ v.warnings = platformWarnings \o finalQuality.issues.warnings
        /\ Len(v.suggestions) = n + Len(finalQuality.issues.suggestions)
        /\ \A i \in 1..n : v.suggestions[i] = platformWarnings[i]
        /\ \A i \in 1..Len(finalQuality.issues.suggestions) :
             v.suggestions[n + i] = finalQuality.issues.suggestions[i]

\* a response whose platform warnings, quality warnings and quality
\* suggestions are all present
C19_Witness ==
  /\ response # << >>
  /\ Len(platformVerdict.warnings) >= 1
  /\ Len(response[1].validation.warnings) > Len(platformVerdict.warnings)
  /\ Len(response[1].validation.suggestions) > Len(platformVerdict.warnings)

(***************************************************************************)
(* Properties of the strategies' optimize and postProcess                  *)
(***************************************************************************)
\* the hashtag tokens of the text handed to optimize
tokensIn(t) == Len(hashtagRuns(trim(t)))

\* C12: optimize never returns more hashtags than the maxHashtags its own
\* strategy reports in getConstraints (2 for Twitter, 5 for LinkedIn),
\* whether they were found in the text or made from the topic
C12_HashtagsWithinMax ==
  /\ getConstraintsOf("twitter").maxHashtags = 2
  /\ getConstraintsOf("linkedin").maxHashtags = 5
  /\ shaped # << >> =>
       Len(shaped[1].hashtags) <= getConstraintsOf(strategyKey).maxHashtags

\* LinkedIn optimize of a text with six hashtag tokens kept the first five
C12_Witness ==
  /\ shaped # << >>
  /\ strategyKey = "linkedin"
  /\ tokensIn(text) = 6
  /\ Len(shaped[1].hashtags) = 5

\* C13: postProcess is idempotent for both strategies: applying it to its own
\* result changes nothing, also when the text repeats a role label, nests
\* wrapping quotes or separates punctuation by whitespace
C13_PostProcessIdempotent ==
  reprocessed # << >> => reprocessed[1] = processed[1]

\* the number of words of t: its maximal runs of characters that are not
\* whitespace
wordsOf(t) == Len(Runs(t, LAMBDA c : ~IsWS(c)))

\* C14: in every OptimizedContent characterCount is the length of the
\* returned content and wordCount the number of whitespace-separated words
\* of that same content, hashtag line included
C14_CountsOfReturnedContent ==
  shaped # << >> =>
    /\ shaped[1].metadata.characterCount = Len(shaped[1].content)
    /\ shaped[1].metadata.wordCount = wordsOf(shaped[1].content)

\* C17: LinkedIn optimize with includeHashtags set, on a text with no hashtag
\* token, returns between 3 and 5 hashtags whatever the topic, short topics
\* being padded from the general professional hashtags
C17_SynthesizedHashtagsThreeToFive ==
  ( /\ shaped # << >>
    /\ strategyKey = "linkedin"
    /\ callContext.includeHashtags
    /\ tokensIn(text) = 0 )
  => /\ Len(shaped[1].hashtags) >= 3
     /\ Len(shaped[1].hashtags) <= 5

\* C18: Twitter optimize rates estimatedEngagement by the final character
\* count: 'high' exactly for 100 to 250 characters inclusive, 'low' below 100
\* and 'medium' above 250
C18_TweetEngagementBands ==
  (shaped # << >> /\ strategyKey = "twitter") =>
    LET characterCount == shaped[1].metadata.characterCount
    IN  shaped[1].metadata.estimatedEngagement
          = IF characterCount < 100 THEN "low"
            ELSE IF characterCount <= 250 THEN "high"
            ELSE "medium"

(***************************************************************************)
(* Properties of concurrent executions                                     *)
(***************************************************************************)
\* what generateContent returns for req when it runs alone on a fresh service
\* and the upstream answers its calls with ans: <<the response>>, or << >>
\* when it rejects
soloOutcome(req, ans) ==
  IF ~ans.first.ok THEN << >>
  ELSE LET ctx     == contextOf(req)
           result  == generationResultOf(DEFAULT_MODEL, ans.first.data)
           content == optimizerPostProcess(req.platform, result.content, ctx)
       IN  IF needsRegeneration(validateContent(content))
             THEN IF ~ans.retry.ok THEN << >>
                  ELSE <<finishOf(req, ctx, result,
                           optimizerPostProcess(req.platform, ans.retry.data.content, ctx))>>
             ELSE <<finishOf(req, ctx, result, content)>>

\* C20: two executions of generateContent interleaved at their awaits each end
\* as they would alone with the same upstream answers (same response, or
\* rejection), and a step of one execution changes neither the other's local
\* variables nor the provider's model
C20_ConcurrentRunsDoNotInterfere ==
  /\ [](\A e \in Executions :
          pcOf[e] \in {"done", "failed"} =>
            /\ frames[e].response = soloOutcome(requestOf[e], answers[e])
            /\ pcOf[e] = "done" <=> frames[e].response # << >>)
  /\ [][ /\ currentModel' = currentModel
         /\ \A e \in Executions : pcOf'[e] = pcOf[e] => frames'[e] = frames[e] ]_vars

\* the first execution is suspended at its regeneration call while the second,
\* for another platform and with another first answer, has returned
C20_Witness ==
  /\ pcOf["first"] = "regenerating"
  /\ pcOf["second"] = "done"
  /\ requestOf["first"].platform # requestOf["second"].platform
  /\ Len(frames["second"].calls) = 1
  /\ frames["second"].response # << >>

(***************************************************************************)
(* Properties of the generation options and of the response metadata       *)
(***************************************************************************)
\* C21: a request that comes through the controller without temperature and
\* maxTokens (the controller hands both on as undefined properties) makes its
\* first generator call with the documented defaults, temperature 0.7 and
\* maxTokens 500, as the values sent to the provider
C21_ControllerDefaultsSent ==
  ( /\ Len(calls) >= 1
    /\ request.options.temperature = Undefined
    /\ request.options.maxTokens = Undefined )
  => /\ calls[1].body.temperature = "0.7"
     /\ calls[1].body.max_tokens = "500"

\* C30: when the content is regenerated, the second generator call is sent
\* with the same effective generation options (temperature, max_tokens and
\* every other option of the request body) as the first call
C30_RetrySameEffectiveOptions ==
  Len(calls) >= 2 =>
    \A f \in DOMAIN calls[1].body \ {"messages"} :
      calls[2].body[f] = calls[1].body[f]

\* the generator results a request has received: the first call's and, when
\* the content was regenerated, the retry's
resultsOfRequest == generationResult \o retryResult

\* C22: the response's metadata.tokensUsed and metadata.cost are the totals
\* over every generator call of the request, the regeneration call included
C22_MetadataTotalsAllCalls ==
  response # << >> =>
    /\ response[1].metadata.tokensUsed
         = Sum([k \in 1..Len(resultsOfRequest) |-> resultsOfRequest[k].tokensUsed.total])
    /\ response[1].metadata.cost
         = Sum([k \in 1..Len(resultsOfRequest) |-> resultsOfRequest[k].cost])

\* C23: every response whose content is longer than the maxLength of the
\* strategy the request resolved to has validation.isValid = false
C23_OverLengthResponseInvalid ==
  ( /\ response # << >>
    /\ Len(response[1].content) > getPlatformConstraints(request.platform).maxLength )
  => response[1].validation.isValid = FALSE

\* a response over the limit of either strategy has been returned
C23_Witness ==
  /\ response # << >>
  /\ Len(response[1].content) > getPlatformConstraints(request.platform).maxLength
  /\ response[1].validation.isValid = FALSE

sentenceWordCounts(t) ==
  LET pieces == sentenceRuns(t)
  IN  [k \in 1..Len(pieces) |-> wordsOf(SubSeq(t, pieces[k][1], pieces[k][2]))]

\* standard deviation over mean of the counts, in thousandths: the mean is
\* T / n and the variance is the mean of the squared distances to it, so
\* (stdDev / mean)^2 = Sum((n * c - T)^2) / (n * T^2)
coefficientOfVariation(counts) ==
  LET n == Len(counts)
      T == Sum(counts)
      distances == Sum([k \in 1..n |-> (n * counts[k] - T) * (n * counts[k] - T)])
  IN  isqrt(millionTimes(distances, n * T * T))

\* C24 as stated: sentenceVariety is 0 for every text with fewer than two
\* sentences (the empty text and a single sentence included), and otherwise
\* the coefficient of variation of the per-sentence word counts
C24_VarietyZeroBelowTwoSentences ==
  textQuality # << >> =>
    LET counts == sentenceWordCounts(text)
    IN  textQuality[1].metrics.sentenceVariety
          = IF Len(counts) < 2 THEN 0 ELSE coefficientOfVariation(counts)

\* C24: sentenceVariety is 1 for every text with fewer than two sentences
\* (the empty text and a single sentence included), and otherwise the
\* coefficient of variation (standard deviation over mean) of the
\* per-sentence word counts
C24_VarietyOneBelowTwoSentences ==
  textQuality # << >> =>
    LET counts == sentenceWordCounts(text)
    IN  textQuality[1].metrics.sentenceVariety
          = IF Len(counts) < 2 THEN 1000 ELSE coefficientOfVariation(counts)

\* a text of several sentences of different lengths has been measured, with
\* a variety that is neither of the two boundary values
C24_Witness ==
  /\ textQuality # << >>
  /\ Len(sentenceWordCounts(text)) >= 3
  /\ textQuality[1].metrics.sentenceVariety \notin {0, 1000}

\* C28: for every text the scorer's platform field is at least 5, so the
\* overall score is at least 1.0; no input gives an overall score of 0
C28_PlatformAtLeastFive ==
  textQuality # << >> =>
    /\ textQuality[1].score.platform >= 50
    /\ textQuality[1].score.overall >= 10

\* a text of equal sentences has been scored: its variety is 0 and its
\* platform field is exactly 5
C28_Witness ==
  /\ textQuality # << >>
  /\ Len(sentenceWordCounts(text)) >= 2
  /\ textQuality[1].metrics.sentenceVariety = 0
  /\ textQuality[1].score.platform = 50

(***************************************************************************)
(* Properties of the LinkedIn reflow and of the hashtag handling           *)
(***************************************************************************)
\* the body that LinkedIn optimize hands to its reflow step: the trimmed
\* text, with the hashtag tokens taken out and trimmed again if it had any
bodyBeforeReflow(t) ==
  IF tokensIn(t) > 0 THEN trim(stripHashtags(trim(t))) ELSE trim(t)

\* the hashtag line that optimize appends for the tags it returns
hashtagLine(tags) ==
  IF Len(tags) = 0 THEN << >>
  ELSE <<"\n", "\n">> \o joinWords(Tuple([k \in 1..Len(tags) |-> <<"#">> \o tags[k]]))

\* the returned content ends with the hashtag line of the returned tags
endsWithHashtagLine(o) ==
  LET line == hashtagLine(o.hashtags)
  IN  /\ Len(o.content) >= Len(line)
      /\ SubSeq(o.content, Len(o.content) - Len(line) + 1, Len(o.content)) = line

\* the body as the reflow step returned it: the returned content without the
\* hashtag line
bodyAfterReflow(o) ==
  SubSeq(o.content, 1, Len(o.content) - Len(hashtagLine(o.hashtags)))

\* C25 as stated: in LinkedIn optimize a body with four or more line breaks
\* is returned unchanged by the reflow step, and a body with fewer than four
\* is re-chunked so that the result contains at least one inserted paragraph
\* break (a double line break)
C25_ReflowAlwaysBelowFourBreaks ==
  (shaped # << >> /\ strategyKey = "linkedin") =>
    LET before == bodyBeforeReflow(text)
        after  == bodyAfterReflow(shaped[1])
    IN  IF countChar(before, "\n") >= 4
          THEN after = before
          ELSE after # before /\ includes(after, <<"\n", "\n">>)

\* C25: in LinkedIn optimize a body with four or more line breaks, and a body
\* of at most two sentences (pieces that end in '.', '!' or '?'), is returned
\* unchanged by the reflow step; a body with fewer than four line breaks and
\* more than two sentences is re-chunked so that the result contains at least
\* one paragraph break (a double line break) between sentences
C25_ReflowOfLongerBodies ==
  (shaped # << >> /\ strategyKey = "linkedin") =>
    LET before == bodyBeforeReflow(text)
        after  == bodyAfterReflow(shaped[1])
    IN  IF countChar(before, "\n") >= 4 \/ Len(sentenceMatches(before)) <= 2
          THEN after = before
          ELSE \E i \in 2..(Len(after) - 2) :
                 /\ after[i] = "\n" /\ after[i + 1] = "\n"
                 /\ IsTerminator(after[i - 1])
                 /\ ~IsWS(after[i + 2])

\* a one-paragraph body of more than two sentences came back with a
\* paragraph break in it
C25_Witness ==
  /\ shaped # << >>
  /\ strategyKey = "linkedin"
  /\ countChar(bodyBeforeReflow(text), "\n") = 0
  /\ Len(sentenceMatches(bodyBeforeReflow(text))) > 2
  /\ includes(bodyAfterReflow(shaped[1]), <<"\n", "\n">>)

\* the characters of t that are not whitespace, in order
nonWhitespace(t) == SelectSeq(t, LAMBDA ch : ~IsWS(ch))

\* C29: the LinkedIn reflow changes whitespace only: the non-whitespace
\* characters of the body are the same, in the same order, after
\* optimizeLineBreaks as before it, also when the body ends with text that
\* has no closing '.', '!' or '?'
C29_ReflowKeepsNonWhitespace ==
  (shaped # << >> /\ strategyKey = "linkedin") =>
    nonWhitespace(bodyAfterReflow(shaped[1]))
      = nonWhitespace(bodyBeforeReflow(text))

\* the hashtag tokens of t without their '#', in order of occurrence
tokensWithoutHash(t) ==
  LET trimmed == trim(t)
      found   == hashtagRuns(trimmed)
  IN  Tuple([k \in 1..Len(found) |-> SubSeq(trimmed, found[k][1] + 1, found[k][2])])

\* the hashtags the strategy makes from the topic, cut to its maximum and
\* without their '#'
synthesizedFor(key, topic) ==
  LET made == IF key = "linkedin" THEN linkedinGenerateHashtags(topic)
                                  ELSE twitterGenerateHashtags(topic)
      n    == Min(Len(made), getConstraintsOf(key).maxHashtags)
  IN  Tuple([k \in 1..n |-> dropHash(made[k])])

\* C26: in optimize of both strategies, when the text has hashtag tokens the
\* returned hashtags are the first maxHashtags of them, in order and without
\* '#', and no hashtag token is left in the body; hashtags are made from the
\* topic only when the text has none and includeHashtags is true; when the
\* text has none and includeHashtags is false the hashtags are empty and the
\* content has no hashtag line
C26_HashtagHandling ==
  shaped # << >> =>
    LET o      == shaped[1]
        tokens == tokensWithoutHash(text)
        max    == getConstraintsOf(strategyKey).maxHashtags
    IN  /\ endsWithHashtagLine(o)
        /\ Len(hashtagRuns(bodyAfterReflow(o))) = 0
        /\ IF Len(tokens) > 0
             THEN o.hashtags = SubSeq(tokens, 1, Min(Len(tokens), max))
           ELSE IF callContext.includeHashtags
             THEN o.hashtags = synthesizedFor(strategyKey, callContext.topic)
           ELSE /\ o.hashtags = << >>
                /\ Len(hashtagRuns(o.content)) = 0

\* Twitter optimize of a text with more tokens than the maximum, hashtags not
\* asked for: the first two came back and the body has none
C26_Witness ==
  /\ shaped # << >>
  /\ strategyKey = "twitter"
  /\ ~callContext.includeHashtags
  /\ Len(tokensWithoutHash(text)) > Len(shaped[1].hashtags)
  /\ Len(shaped[1].hashtags) = 2
  /\ countChar(bodyAfterReflow(shaped[1]), "#") = 0

====
